---- MODULE Spec2Model ----
(***************************************************************************)
(* Execution-plan orchestration of the Pillar SDK: the plan store, the     *)
(* plan persistence layer, the PlanExecutor state machine and the plan     *)
(* RPCs it issues.  Every action is one synchronous run of the executor    *)
(* between two suspension points (an awaited RPC or an awaited handler).   *)
(***************************************************************************)
EXTENDS Integers, Sequences, FiniteSets, TLC

(* ---------------------------------------------------------------------- *)
(* Bounds                                                                  *)
(* ---------------------------------------------------------------------- *)
MaxPlans == 1
MaxOps == 3
MaxInflight == 2
MaxFrames == 3

(* ---------------------------------------------------------------------- *)
(* Program constants                                                       *)
(* ---------------------------------------------------------------------- *)
STORAGE_VERSION == 1
DefaultTimeoutMinutes == 30

SiteId == "site-A"

ActiveStatuses == {"planning", "ready", "executing", "awaiting_start", "awaiting_input", "awaiting_result"}
TerminalStatuses == {"completed", "failed", "cancelled"}
PlanStatuses == ActiveStatuses \cup TerminalStatuses
StepStatuses == {"pending", "ready", "awaiting_confirmation", "executing", "awaiting_result", "completed", "skipped", "failed"}

(* The absent plan (null) and the absent storage record.                   *)
NoPlan == [id |-> 0]
NoRecord == [version |-> 0]

IsPlan(p) == p.id # 0

(* Action names with a handler registered through defineActions().         *)
RegisteredActions == {"wizard", "query"}

(* Task names and task types with a handler registered through onTask().   *)
TaskHandlers == {"navigate"}

(* ---------------------------------------------------------------------- *)
(* Plans the server can stream to the client                               *)
(* ---------------------------------------------------------------------- *)
StepId(planId, idx) == planId * 10 + idx

(* A step's action_data as the backend sends it, and the fields a user     *)
(* edits in the confirmation form.                                         *)
OrigData == [name |-> "orig", email |-> "orig"]
ModifiedData == [email |-> "edited", note |-> "edited"]

MkStep(planId, idx, sh) ==
  [ id |-> StepId(planId, idx),
    index |-> idx - 1,
    action_name |-> sh.action_name,
    action_type |-> sh.action_type,
    action_data |-> OrigData,
    requires_user_confirmation |-> sh.confirm,
    requires_result_feedback |-> sh.feedback,
    auto_complete |-> sh.auto_complete,
    status |-> sh.status,
    result |-> "null",
    error_message |-> "",
    retry_count |-> 0,
    max_retries |-> sh.max_retries,
    is_retriable |-> sh.is_retriable ]

(* The step lists of the plans delivered to the client.                    *)
ShapeAuto == [action_name |-> "query", action_type |-> "trigger_action", confirm |-> FALSE, feedback |-> FALSE, auto_complete |-> TRUE, is_retriable |-> TRUE, status |-> "ready", max_retries |-> 1]
ShapeConfirm == [action_name |-> "query", action_type |-> "trigger_action", confirm |-> TRUE, feedback |-> FALSE, auto_complete |-> TRUE, is_retriable |-> FALSE, status |-> "ready", max_retries |-> 1]
ShapeWizard == [action_name |-> "wizard", action_type |-> "trigger_action", confirm |-> FALSE, feedback |-> FALSE, auto_complete |-> FALSE, is_retriable |-> TRUE, status |-> "ready", max_retries |-> 0]
ShapeFeedback == [action_name |-> "query", action_type |-> "trigger_action", confirm |-> FALSE, feedback |-> TRUE, auto_complete |-> TRUE, is_retriable |-> FALSE, status |-> "ready", max_retries |-> 1]
ShapePending == [action_name |-> "open_settings", action_type |-> "open_modal", confirm |-> FALSE, feedback |-> FALSE, auto_complete |-> TRUE, is_retriable |-> FALSE, status |-> "pending", max_retries |-> 1]

PlanInputs == {
      [auto_execute |-> TRUE,  shapes |-> <<ShapeAuto, ShapeAuto>>],
      [auto_execute |-> TRUE,  shapes |-> <<ShapeConfirm>>],
      [auto_execute |-> TRUE,  shapes |-> <<ShapeWizard, ShapeWizard>>],
      [auto_execute |-> TRUE,  shapes |-> <<ShapeFeedback, ShapePending>>],
      [auto_execute |-> FALSE, shapes |-> <<ShapeAuto, ShapeWizard>>] }

MkPlan(planId, autoExec, shapes) ==
  [ id |-> planId,
    status |-> IF autoExec THEN "executing" ELSE "awaiting_start",
    auto_execute |-> autoExec,
    total_steps |-> Len(shapes),
    completed_steps |-> 0,
    timeout_minutes |-> <<>>,
    steps |-> [i \in 1..Len(shapes) |-> MkStep(planId, i, shapes[i])] ]

(* ---------------------------------------------------------------------- *)
(* Plan store (store/plan.ts)                                              *)
(* ---------------------------------------------------------------------- *)
Merge(step, updates) ==
  [f \in DOMAIN step |-> IF f \in DOMAIN updates THEN updates[f] ELSE step[f]]

CountCompleted(steps) ==
  Cardinality({i \in DOMAIN steps : steps[i].status = "completed"})

(* setPlan that keeps only the plan it archives.                           *)
setPlanHistory_Replace(active, history) ==
  IF IsPlan(active) THEN <<active>> ELSE history

(* setPlan: archive the current plan, install the new one.                 *)
setPlanHistory(active, history) ==
  IF IsPlan(active) THEN Append(history, active) ELSE history

(* updatePlan: replace in place.                                           *)
updatePlan(active, plan) == plan

(* { ...a, ...b } with the fields of a winning.                            *)
Spread_FirstWins(a, b) ==
  [k \in DOMAIN a \cup DOMAIN b |-> IF k \in DOMAIN a THEN a[k] ELSE b[k]]

(* { ...a, ...b }: every field of either, those of b winning.              *)
Spread(a, b) ==
  [k \in DOMAIN a \cup DOMAIN b |-> IF k \in DOMAIN b THEN b[k] ELSE a[k]]

(* updatePlanStep that never recounts completed_steps.                     *)
updatePlanStep_KeepCount(active, stepId, updates) ==
  IF ~IsPlan(active) THEN active
  ELSE [active EXCEPT !.steps = [i \in DOMAIN active.steps |->
                                   IF active.steps[i].id = stepId
                                   THEN Merge(active.steps[i], updates)
                                   ELSE active.steps[i]]]

(* updatePlanStep: merge the updates into the step with the given id.      *)
updatePlanStep(active, stepId, updates) ==
  IF ~IsPlan(active) THEN active
  ELSE LET steps == [i \in DOMAIN active.steps |->
                       IF active.steps[i].id = stepId
                       THEN Merge(active.steps[i], updates)
                       ELSE active.steps[i]]
           completedSteps ==
             IF "status" \in DOMAIN updates /\ updates.status = "completed"
             THEN CountCompleted(steps)
             ELSE active.completed_steps
       IN [active EXCEPT !.steps = steps, !.completed_steps = completedSteps]

(* clearPlan that forgets to archive the plan it clears.                   *)
clearPlanHistory_NoArchive(active, history, addToHistory) == history

(* clearPlan(addToHistory)                                                 *)
clearPlanHistory(active, history, addToHistory) ==
  IF IsPlan(active) /\ addToHistory THEN Append(history, active) ELSE history

(* steps.find(pred): index of the first step satisfying pred, 0 if none.   *)
FindFirst(steps, Pred(_)) ==
  IF \E i \in DOMAIN steps : Pred(steps[i])
  THEN CHOOSE i \in DOMAIN steps : Pred(steps[i]) /\ \A j \in 1..(i-1) : ~Pred(steps[j])
  ELSE 0

FindById(plan, stepId) ==
  IF IsPlan(plan) THEN LET P(s) == s.id = stepId IN FindFirst(plan.steps, P) ELSE 0

(* ---------------------------------------------------------------------- *)
(* Plan persistence (store/plan-persistence.ts)                            *)
(* ---------------------------------------------------------------------- *)
(* savePlan: the record left in the site's slot.                           *)
savePlan(record, plan, siteId, time) ==
  IF ~IsPlan(plan) \/ siteId = "" THEN record
  ELSE IF plan.status \notin ActiveStatuses THEN NoRecord
  ELSE [version |-> STORAGE_VERSION, plan |-> plan, siteId |-> siteId, storedAt |-> time]

(* data.plan.timeout_minutes || 30 (line 100).  The field is <<>> when     *)
(* unset and <<n>> when it holds the number n; 0 is falsy like undefined.  *)
TimeoutOf(plan) ==
  IF plan.timeout_minutes = <<>> THEN DefaultTimeoutMinutes
  ELSE IF plan.timeout_minutes[1] = 0 THEN DefaultTimeoutMinutes
  ELSE plan.timeout_minutes[1]

(* loadSavedPlan: TRUE when the stored record passes every check.          *)
LoadAccepts(record, siteId, time) ==
  /\ record.version # 0
  /\ record.version = STORAGE_VERSION
  /\ record.siteId = siteId
  /\ ~(time - record.storedAt > TimeoutOf(record.plan))

loadSavedPlan(record, siteId, time) ==
  IF LoadAccepts(record, siteId, time) THEN record.plan ELSE NoPlan

(* The slot after loadSavedPlan: cleared on every rejection.               *)
loadSavedPlanSlot(record, siteId, time) ==
  IF LoadAccepts(record, siteId, time) THEN record ELSE NoRecord

(* ---------------------------------------------------------------------- *)
(* The same module over localStorage itself: a map from keys to strings.   *)
(* ---------------------------------------------------------------------- *)
STORAGE_KEY == "pillar:active_plan"

(* getStorageKey with the site left out of the key.                        *)
getStorageKey_Shared(siteId) == <<STORAGE_KEY, "">>

(* getStorageKey: `${STORAGE_KEY}:${siteId}`                               *)
getStorageKey(siteId) == <<STORAGE_KEY, siteId>>

(* localStorage.getItem / setItem / removeItem; NoItem is getItem's null.  *)
NoItem == [kind |-> "null"]
getItem(store, key) == IF key \in DOMAIN store THEN store[key] ELSE NoItem
setItem(store, key, item) ==
  [k \in DOMAIN store \cup {key} |-> IF k = key THEN item ELSE store[k]]
removeItem(store, key) == [k \in DOMAIN store \ {key} |-> store[k]]

(* Date.prototype.toISOString and new Date(string).getTime(), in minutes.  *)
toISOString(time) == [iso |-> time]
getTime(text) == text.iso

(* JSON.stringify of an envelope and JSON.parse of an item; a string that  *)
(* is not JSON makes JSON.parse throw.                                     *)
JSONstringify(data) == [kind |-> "json", value |-> data]
ParseThrows(item) == item.kind # "json"
JSONparse(item) == item.value

(* clearSavedPlan (lines 125-135).                                         *)
clearSavedPlanIn(store, siteId) ==
  IF siteId = "" THEN store ELSE removeItem(store, getStorageKey(siteId))

(* savePlan that writes the plan whatever its status.                      *)
savePlanIn_AnyStatus(store, plan, siteId, time) ==
  IF ~IsPlan(plan) \/ siteId = "" THEN store
  ELSE setItem(store, getStorageKey(siteId),
               JSONstringify([version |-> STORAGE_VERSION, plan |-> plan,
                              siteId |-> siteId, storedAt |-> toISOString(time)]))

(* savePlan (lines 38-64): localStorage after the call.                    *)
savePlanIn(store, plan, siteId, time) ==
  IF ~IsPlan(plan) \/ siteId = "" THEN store
  ELSE IF plan.status \notin ActiveStatuses THEN clearSavedPlanIn(store, siteId)
  ELSE setItem(store, getStorageKey(siteId),
               JSONstringify([version |-> STORAGE_VERSION, plan |-> plan,
                              siteId |-> siteId, storedAt |-> toISOString(time)]))

(* loadSavedPlan (lines 72-118): the plan returned (NoPlan for null) and   *)
(* localStorage after the call.                                            *)
loadSavedPlanFrom(store, siteId, time) ==
  LET stored == getItem(store, getStorageKey(siteId))
      rejected == [plan |-> NoPlan, store |-> clearSavedPlanIn(store, siteId)]
  IN IF siteId = "" THEN [plan |-> NoPlan, store |-> store]
     ELSE IF stored = NoItem THEN [plan |-> NoPlan, store |-> store]
     ELSE IF ParseThrows(stored) THEN rejected
     ELSE LET data == JSONparse(stored)
          IN IF data.version # STORAGE_VERSION THEN rejected
             ELSE IF data.siteId # siteId THEN rejected
             ELSE IF time - getTime(data.storedAt) > TimeoutOf(data.plan) THEN rejected
             ELSE [plan |-> data.plan, store |-> store]

(* ---------------------------------------------------------------------- *)
(* The plan backend as the RPC documentation describes it                  *)
(* (api/mcp-client.ts, plan methods): the server keeps its own copy of      *)
(* every plan and answers each request with that copy after the change.    *)
(* ---------------------------------------------------------------------- *)
SrvNextReady(steps) ==
  LET P(s) == s.status = "pending"
      n == FindFirst(steps, P)
  IN IF n = 0 THEN steps ELSE [steps EXCEPT ![n].status = "ready"]

SrvSetStep(sp, stepId, updates) ==
  [i \in DOMAIN sp.steps |->
     IF sp.steps[i].id = stepId THEN Merge(sp.steps[i], updates) ELSE sp.steps[i]]

(* plans/start: "Updated plan with executing status"                       *)
SrvStart(sp) == [sp EXCEPT !.status = "executing"]

(* plans/skip-step: "Updated plan with skipped step and next step ready"   *)
SrvSkip(sp, stepId) ==
  [sp EXCEPT !.steps = SrvNextReady(SrvSetStep(sp, stepId, [status |-> "skipped"]))]

(* plans/continue: the result is recorded and later steps are updated      *)
SrvContinue(sp, stepId, result) ==
  LET steps == SrvNextReady(SrvSetStep(sp, stepId, [status |-> "completed", result |-> result]))
  IN [sp EXCEPT !.steps = steps, !.completed_steps = CountCompleted(steps)]

(* plans/retry-step: "Only works if the step is retriable and hasn't       *)
(* exceeded max_retries"                                                   *)
SrvCanRetry(sp, stepId) ==
  \E i \in DOMAIN sp.steps :
     /\ sp.steps[i].id = stepId
     /\ sp.steps[i].is_retriable
     /\ sp.steps[i].retry_count < sp.steps[i].max_retries

(* plans/retry-step: "Increments the retry count and resets the step to    *)
(* ready status"                                                           *)
SrvRetry(sp, stepId) ==
  [sp EXCEPT !.steps =
     [i \in DOMAIN sp.steps |->
        IF sp.steps[i].id = stepId
        THEN [sp.steps[i] EXCEPT !.status = "ready", !.retry_count = @ + 1]
        ELSE sp.steps[i]]]

(* plans/fail-step: "Records the error and determines if the plan should   *)
(* also fail (if step is not retriable or out of retries)"                 *)
SrvFail(sp, stepId, errorMessage) ==
  [sp EXCEPT !.steps = SrvSetStep(sp, stepId, [status |-> "failed", error_message |-> errorMessage]),
             !.status = IF SrvCanRetry(sp, stepId) THEN @ ELSE "failed"]

(* plans/cancel: "Marks the plan as cancelled and skips any pending steps" *)
SrvCancel(sp) ==
  [sp EXCEPT !.status = "cancelled",
             !.steps = [i \in DOMAIN sp.steps |->
                          IF sp.steps[i].status = "pending"
                          THEN [sp.steps[i] EXCEPT !.status = "skipped"]
                          ELSE sp.steps[i]]]

(* ---------------------------------------------------------------------- *)
(* Events, suspended calls and the run context                             *)
(* ---------------------------------------------------------------------- *)
NoStep == [id |-> 0]

(* An emitted event: its name and the payload fields the UI reads (plan    *)
(* id, step id, success / canRetry flag, retryCount, error message).       *)
EvFull(type, planId, stepId, flag, retryCount, error) ==
  [type |-> type, plan |-> planId, step |-> stepId, flag |-> flag, n |-> retryCount, error |-> error]

Ev(type, planId, stepId, flag) == EvFull(type, planId, stepId, flag, 0, "")

EvRetry(planId, stepId, retryCount) == EvFull("plan:step:retry", planId, stepId, FALSE, retryCount, "")

(* A call suspended at an await: an RPC in flight or a running handler,    *)
(* with the error message (failStep) or the result (continuePlan) sent.    *)
Susp(kind, planId, step, err) ==
  [kind |-> kind, planId |-> planId, step |-> step, err |-> err]

RpcKinds == {"plans/start", "plans/skip-step", "plans/retry-step", "plans/cancel",
             "plans/get", "plans/continue", "plans/fail-step"}

(* The state a synchronous run of the executor works on.                   *)
Ctx(a, h, r) ==
  [active |-> a, history |-> h, saved |-> r, ev |-> <<>>, out |-> <<>>, invoked |-> 0,
   task |-> <<>>]

Emit(c, e) == [c EXCEPT !.ev = Append(@, e)]

(* ---------------------------------------------------------------------- *)
(* PlanExecutor (core/plan-executor.ts): the synchronous runs              *)
(* ---------------------------------------------------------------------- *)
(* executeStep up to its first await (lines 445-465 / 478).                *)
executeStep(c, step) ==
  IF ~IsPlan(c.active) THEN c
  ELSE [c EXCEPT
          !.active = updatePlanStep(@, step.id, [status |-> "executing"]),
          !.ev = Append(@, Ev("plan:step:active", c.active.id, step.id, FALSE)),
          !.out = Append(@, Susp("handler", c.active.id, step, "")),
          !.invoked = IF step.action_name \in RegisteredActions THEN step.id ELSE 0]

IsReady(s) == s.status = "ready"
IsAwaitingConfirm(s) == s.status = "awaiting_confirmation" /\ s.requires_user_confirmation
IsDone(s) == s.status \in {"completed", "skipped", "failed"}

(* The step executeNextStep selects (0 when none).                         *)
SelectStep(plan) ==
  LET r == FindFirst(plan.steps, IsReady)
  IN IF r # 0 THEN r ELSE FindFirst(plan.steps, IsAwaitingConfirm)

(* executeNextStep that completes the plan as soon as nothing is           *)
(* selectable.                                                             *)
executeNextStep_CompletesEarly(c) ==
  IF ~IsPlan(c.active) THEN c
  ELSE LET plan == c.active
           n == SelectStep(plan)
       IN IF n = 0
          THEN [c EXCEPT
                  !.ev = Append(@, Ev("plan:complete", plan.id, 0, FALSE)),
                  !.history = clearPlanHistory(c.active, @, TRUE),
                  !.active = NoPlan,
                  !.saved = NoRecord]
          ELSE LET step == plan.steps[n]
               IN IF step.requires_user_confirmation /\ step.status # "awaiting_confirmation"
                  THEN [c EXCEPT
                          !.active = updatePlanStep(@, step.id, [status |-> "awaiting_confirmation"]),
                          !.ev = Append(@, Ev("plan:step:confirm", plan.id, step.id, FALSE))]
                  ELSE IF step.status = "awaiting_confirmation"
                  THEN c
                  ELSE executeStep(c, step)

executeNextStep(c) ==
  IF ~IsPlan(c.active) THEN c
  ELSE LET plan == c.active
           n == SelectStep(plan)
       IN IF n = 0
          THEN IF \A i \in DOMAIN plan.steps : IsDone(plan.steps[i])
               THEN [c EXCEPT
                       !.ev = Append(@, Ev("plan:complete", plan.id, 0, FALSE)),
                       !.history = clearPlanHistory(c.active, @, TRUE),
                       !.active = NoPlan,
                       !.saved = NoRecord]
               ELSE c
          ELSE LET step == plan.steps[n]
               IN IF step.requires_user_confirmation /\ step.status # "awaiting_confirmation"
                  THEN [c EXCEPT
                          !.active = updatePlanStep(@, step.id, [status |-> "awaiting_confirmation"]),
                          !.ev = Append(@, Ev("plan:step:confirm", plan.id, step.id, FALSE))]
                  ELSE IF step.status = "awaiting_confirmation"
                  THEN c
                  ELSE executeStep(c, step)

(* The step with the given id in the plan, NoStep when absent.             *)
StepOf(plan, stepId) ==
  LET n == FindById(plan, stepId) IN IF n = 0 THEN NoStep ELSE plan.steps[n]

(* A task:* event of Pillar.executeTask: its name, the task and whether it *)
(* reports success.                                                        *)
TaskEv(type, name, success) == [type |-> type, name |-> name, success |-> success]

(* Pillar.executeTask for a step (Pillar.ts, executeTask): task:execute,   *)
(* then the first handler found among the action registry, the onTask      *)
(* handler of the name and the onTask handler of the type; without one the *)
(* built-in of the task type, which acts only when its argument is there;  *)
(* otherwise a warning and task:complete with success=false.  The call     *)
(* returns nothing and never throws.                                       *)
executeTask(c, step, handlerOk) ==
  LET name == step.action_name
      taskType == step.action_type
      data == step.action_data
      handler == name \in RegisteredActions \/ name \in TaskHandlers \/ taskType \in TaskHandlers
      c1 == [c EXCEPT !.task = Append(@, TaskEv("task:execute", name, TRUE))]
      complete(success) == [c1 EXCEPT !.task = Append(@, TaskEv("task:complete", name, success))]
  IN IF handler THEN complete(handlerOk)
     ELSE IF taskType = "navigate"
     THEN IF "path" \in DOMAIN data THEN complete(TRUE) ELSE c1
     ELSE IF taskType = "external_link"
     THEN IF "url" \in DOMAIN data THEN complete(TRUE) ELSE c1
     ELSE IF taskType = "copy_text"
     THEN IF "text" \in DOMAIN data THEN complete(TRUE) ELSE c1
     ELSE complete(FALSE)

(* Whether an onTask handler run by executeTask can return or throw: only  *)
(* a step dispatched to one has the second outcome.                        *)
TaskOutcomes(step) ==
  IF /\ step.action_name \notin RegisteredActions
     /\ step.action_name \in TaskHandlers \/ step.action_type \in TaskHandlers
  THEN BOOLEAN ELSE {TRUE}

(* executeStep once the handler returned or, without a registered handler, *)
(* once Pillar was imported: the result it goes on with (lines 463-503).   *)
executeStepDispatch(c, step, handlerOk) ==
  IF step.action_name \in RegisteredActions
  THEN [ctx |-> c, result |-> "ok"]
  ELSE [ctx |-> executeTask(c, step, handlerOk), result |-> "executed"]

(* executeStep that completes an auto_complete step and stops there.       *)
executeStepSuccess_NoWalk(c, planId, step, result) ==
  IF step.requires_result_feedback
  THEN [c EXCEPT !.out = Append(@, Susp("plans/continue", planId, step, result))]
  ELSE IF step.auto_complete
  THEN LET c1 == [c EXCEPT !.active = updatePlanStep(@, step.id, [status |-> "completed", result |-> result])]
       IN Emit(c1, Ev("plan:step:complete", c1.active.id, step.id, TRUE))
  ELSE LET c1 == [c EXCEPT !.active = updatePlanStep(@, step.id, [status |-> "awaiting_result", result |-> result])]
       IN Emit(c1, Ev("plan:step:active", c1.active.id, step.id, FALSE))

(* executeStep after a successful handler (lines 505-540).                 *)
executeStepSuccess(c, planId, step, result) ==
  IF step.requires_result_feedback
  THEN [c EXCEPT !.out = Append(@, Susp("plans/continue", planId, step, result))]
  ELSE IF step.auto_complete
  THEN LET c1 == [c EXCEPT !.active = updatePlanStep(@, step.id, [status |-> "completed", result |-> result])]
       IN executeNextStep(Emit(c1, Ev("plan:step:complete", c1.active.id, step.id, TRUE)))
  ELSE LET c1 == [c EXCEPT !.active = updatePlanStep(@, step.id, [status |-> "awaiting_result", result |-> result])]
       IN Emit(c1, Ev("plan:step:active", c1.active.id, step.id, FALSE))

(* canRetry computed from is_retriable alone.                              *)
CanRetry_IgnoreCount(active, step) ==
  LET updatedStep == StepOf(active, step.id)
  IN IF updatedStep.id # 0 THEN updatedStep.is_retriable ELSE step.is_retriable

(* canRetry as the catch block computes it (lines 562-566).                *)
CanRetry(active, step) ==
  LET updatedStep == StepOf(active, step.id)
  IN IF updatedStep.id # 0
     THEN updatedStep.is_retriable /\ updatedStep.retry_count < updatedStep.max_retries
     ELSE step.is_retriable /\ step.retry_count < step.max_retries

(* The events of the catch block once failStep has settled (568-588).      *)
executeStepFailed(c, step, error) ==
  LET canRetry == CanRetry(c.active, step)
      c1 == Emit(c, EvFull("plan:step:failed", c.active.id, step.id, canRetry, 0, error))
      c2 == Emit(c1, Ev("plan:step:complete", c.active.id, step.id, FALSE))
  IN IF ~canRetry THEN Emit(c2, EvFull("plan:error", c.active.id, 0, FALSE, 0, error)) ELSE c2

(* markStepComplete (lines 427-440).                                       *)
markStepComplete(c, stepId, data) ==
  LET c1 == [c EXCEPT !.active = updatePlanStep(@, stepId, [status |-> "completed", result |-> data])]
  IN executeNextStep(Emit(c1, Ev("plan:step:complete", c1.active.id, stepId, TRUE)))

(* ---------------------------------------------------------------------- *)
(* MCPClient.callToolStream (api/mcp-client.ts): the response body is a    *)
(* text of lines "data: {...}" ended by "\n", read in chunks.              *)
(* ---------------------------------------------------------------------- *)
(* The frames a line can carry: two tokens, the other progress kinds, a    *)
(* JSON-RPC error, a result for this request and one for another, and a    *)
(* data line that is not JSON.                                             *)
Frames == {"token:a", "token:b", "plan_created", "cancelled", "progress",
           "error", "result:mine", "result:other", "garbage"}

(* The text of a frame's line: its characters (two halves, so that a chunk *)
(* can end inside a line) and the newline.                                 *)
NL == [f |-> "", part |-> 0]
LineOf(frame) == <<[f |-> frame, part |-> 1], [f |-> frame, part |-> 2], NL>>

RECURSIVE BodyOf(_)
BodyOf(frames) ==
  IF frames = <<>> THEN <<>> ELSE LineOf(Head(frames)) \o BodyOf(Tail(frames))

(* buffer.split('\n') followed by lines.pop() (lines 253-254): the complete *)
(* lines and the incomplete rest.                                          *)
RECURSIVE SplitLines(_, _, _)
SplitLines(text, cur, acc) ==
  IF text = <<>> THEN [lines |-> acc, rest |-> cur]
  ELSE IF Head(text) = NL THEN SplitLines(Tail(text), <<>>, Append(acc, cur))
  ELSE SplitLines(Tail(text), Append(cur, Head(text)), acc)

(* What a line is to the loop (lines 257-262): blank, not a data line or   *)
(* not JSON ("ignored"), or the frame it carries.                          *)
ParseLine(line) ==
  IF line = <<>> THEN "blank"
  ELSE IF /\ Len(line) = 2
          /\ line[1].part = 1 /\ line[2].part = 2
          /\ line[1].f = line[2].f
          /\ line[1].f # "garbage"
       THEN line[1].f
       ELSE "ignored"

NoResult == [id |-> "none"]
NotSettled == [kind |-> "pending"]
Called(cb, arg) == [cb |-> cb, arg |-> arg]
TokenOf(frame) == IF frame = "token:a" THEN <<"a">> ELSE <<"b">>

(* Array.prototype.join(''): the texts one after the other.                *)
RECURSIVE Join(_)
Join(texts) == IF texts = <<>> THEN <<>> ELSE Head(texts) \o Join(Tail(texts))

(* The loop body that reports a line it cannot parse through onError.     *)
processLine_ParseErrorReported(st, line) ==
  LET frame == ParseLine(line)
  IN IF frame \in {"blank", "result:other"} THEN st
     ELSE IF frame = "ignored"
     THEN [st EXCEPT !.trace = Append(@, Called("onError", <<"parse">>))]
     ELSE IF frame = "error"
     THEN [st EXCEPT !.trace = Append(@, Called("onError", <<"e">>))]
     ELSE IF frame \in {"token:a", "token:b"}
     THEN [st EXCEPT !.collectedText = Append(@, TokenOf(frame)),
                     !.trace = Append(@, Called("onToken", TokenOf(frame)))]
     ELSE IF frame = "plan_created"
     THEN [st EXCEPT !.trace = Append(@, Called("onPlan", <<>>))]
     ELSE IF frame = "cancelled"
     THEN [st EXCEPT !.stop = TRUE, !.trace = Append(@, Called("break", <<>>))]
     ELSE IF frame = "progress"
     THEN [st EXCEPT !.trace = Append(@, Called("onProgress", <<>>))]
     ELSE [st EXCEPT !.finalResult = [id |-> "mine"],
                     !.trace = @ \o <<Called("onSources", <<>>), Called("onComplete", <<>>)>>]

(* The body of the for loop for one line (lines 256-323).  st.stop is the  *)
(* break of the cancelled branch; "break" in the trace marks it.           *)
processLine(st, line) ==
  LET frame == ParseLine(line)
  IN IF frame \in {"blank", "ignored", "result:other"} THEN st
     ELSE IF frame = "error"
     THEN [st EXCEPT !.trace = Append(@, Called("onError", <<"e">>))]
     ELSE IF frame \in {"token:a", "token:b"}
     THEN [st EXCEPT !.collectedText = Append(@, TokenOf(frame)),
                     !.trace = Append(@, Called("onToken", TokenOf(frame)))]
     ELSE IF frame = "plan_created"
     THEN [st EXCEPT !.trace = Append(@, Called("onPlan", <<>>))]
     ELSE IF frame = "cancelled"
     THEN [st EXCEPT !.stop = TRUE, !.trace = Append(@, Called("break", <<>>))]
     ELSE IF frame = "progress"
     THEN [st EXCEPT !.trace = Append(@, Called("onProgress", <<>>))]
     ELSE [st EXCEPT !.finalResult = [id |-> "mine"],
                     !.trace = @ \o <<Called("onSources", <<>>), Called("onComplete", <<>>)>>]

(* for (const line of lines): the lines in order, up to a break.           *)
RECURSIVE processLines(_, _)
processLines(st, lines) ==
  IF lines = <<>> \/ st.stop THEN st
  ELSE processLines(processLine(st, Head(lines)), Tail(lines))

(* One turn of the while loop for a chunk that was read (lines 241-324).   *)
processChunk(st, chunk) ==
  LET sp == SplitLines(st.buffer \o chunk, <<>>, <<>>)
  IN processLines([st EXCEPT !.buffer = sp.rest, !.stop = FALSE], sp.lines)

(* The whole loop over the chunks of a stream that ends.                   *)
RECURSIVE readAll(_, _)
readAll(st, chunks) ==
  IF chunks = <<>> THEN st ELSE readAll(processChunk(st, Head(chunks)), Tail(chunks))

(* buildResult that keeps the last token only.                             *)
buildResult_LastToken(st) ==
  IF st.finalResult = NoResult
  THEN [kind |-> "resolved", isError |-> FALSE, id |-> "built",
        text |-> IF st.collectedText = <<>> THEN <<>> ELSE st.collectedText[Len(st.collectedText)]]
  ELSE [kind |-> "resolved", isError |-> FALSE, id |-> st.finalResult.id, text |-> <<>>]

(* The result built when no result frame was taken (lines 338-345).        *)
buildResult(st) ==
  IF st.finalResult = NoResult
  THEN [kind |-> "resolved", isError |-> FALSE, id |-> "built", text |-> Join(st.collectedText)]
  ELSE [kind |-> "resolved", isError |-> FALSE, id |-> st.finalResult.id, text |-> <<>>]

StreamStart ==
  [buffer |-> <<>>, collectedText |-> <<>>, finalResult |-> NoResult, trace |-> <<>>, stop |-> FALSE]

(* ---------------------------------------------------------------------- *)
(* State                                                                   *)
(* ---------------------------------------------------------------------- *)
VARIABLES
  active,        \* activePlan signal
  history,       \* planHistory signal
  saved,         \* the localStorage slot of the site
  server,        \* the backend's copy of every plan it created
  inflight,      \* calls suspended at an await
  now,           \* wall clock, in minutes
  booted,        \* FALSE between a page load and its recoverPlan call
  ops,           \* public calls, reloads and faults so far
  budget,        \* how many of them a behaviour may take
  emitted,       \* events emitted by the last run
  invoked,       \* id of the step whose handler the last run started
  lastAct,       \* the last run: operation, plan, step, RPC outcome, RPC sent
  storage,       \* localStorage: key -> string
  lastStore,     \* the last persistence call: function, site, argument, result
  streamPhase,   \* callToolStream: "idle", "reading", "returned" or "rejected"
  chunksLeft,    \* the chunks reader.read() has still to deliver
  streamBody,    \* the whole response body of the call
  buffer,        \* the incomplete line kept between reads
  collectedText, \* the tokens collected so far
  finalResult,   \* the result frame taken as the call's result
  trace,         \* the callbacks invoked so far, in order
  releases,      \* how many times reader.releaseLock() ran
  settled,       \* what the call returned or threw
  taskEvents,    \* the task:* events Pillar.executeTask emitted in the last run
  completedPlans, \* ids of the plans plan:complete was emitted for since the page load
  doneAtReload   \* steps that were completed in the store at the last reload

vars == <<active, history, saved, server, inflight, now, booted, ops, budget,
          emitted, invoked, lastAct, doneAtReload, taskEvents, completedPlans,
          storage, lastStore, streamPhase, chunksLeft, streamBody, buffer, collectedText,
          finalResult, trace, releases, settled>>

streamVars == <<streamPhase, chunksLeft, streamBody, buffer, collectedText,
                finalResult, trace, releases, settled>>

PlanIds == 1..MaxPlans
(* Arguments of the public calls: the ids of the active plan's steps and   *)
(* one id no plan has; the action names plans use.                         *)
UnknownStep == StepId(9, 9)
StepArgs == (IF IsPlan(active) THEN {active.steps[j].id : j \in DOMAIN active.steps} ELSE {})
            \cup {UnknownStep}
ActionNames == {"query", "wizard"}
ReloadDelays == {0, 31}

(* The last run: the operation, the plan and step it addressed, whether    *)
(* the RPC it resumed from succeeded, and the plan id it returned (0 for   *)
(* null or void).                                                          *)
ActRet(op, planId, stepId, ok, ret) ==
  [op |-> op, plan |-> planId, step |-> stepId, ok |-> ok, ret |-> ret]

Act(op, planId, stepId, ok) == ActRet(op, planId, stepId, ok, 0)

RemoveAt(seq, i) ==
  IF i = 0 THEN seq
  ELSE [j \in 1..(Len(seq) - 1) |-> IF j < i THEN seq[j] ELSE seq[j + 1]]

(* The last persistence call: the function, its site and plan arguments,   *)
(* what it returned, and whether the site's key held an item before it.    *)
StoreOp(fn, siteId, plan, ret, had) ==
  [fn |-> fn, site |-> siteId, plan |-> plan, ret |-> ret, had |-> had]

(* The state after construction, with the number of calls and faults the  *)
(* behaviour may take.                                                     *)
InitWithBudget(b) ==
  /\ active = NoPlan
  /\ history = <<>>
  /\ saved = NoRecord
  /\ server = [p \in PlanIds |-> NoPlan]
  /\ inflight = <<>>
  /\ now = 0
  /\ booted = FALSE
  /\ ops = 0
  /\ budget = b
  /\ emitted = <<>>
  /\ invoked = 0
  /\ lastAct = Act("init", 0, 0, TRUE)
  /\ doneAtReload = {}
  /\ taskEvents = <<>>
  /\ completedPlans = {}
  /\ storage = <<>>
  /\ lastStore = StoreOp("init", "", NoPlan, NoPlan, FALSE)
  /\ streamPhase = "idle"
  /\ chunksLeft = <<>>
  /\ streamBody = <<>>
  /\ buffer = <<>>
  /\ collectedText = <<>>
  /\ finalResult = NoResult
  /\ trace = <<>>
  /\ releases = 0
  /\ settled = NotSettled

Init == InitWithBudget(MaxOps)

(* The effect of one run: store, storage, events, suspended calls.         *)
Commit(c, i, act) ==
  /\ active' = c.active
  /\ history' = c.history
  /\ saved' = c.saved
  /\ inflight' = RemoveAt(inflight, i) \o c.out
  /\ Len(inflight') <= MaxInflight
  /\ emitted' = c.ev
  /\ invoked' = c.invoked
  /\ taskEvents' = c.task
  /\ completedPlans' = completedPlans \cup
       {c.ev[j].plan : j \in {j \in DOMAIN c.ev : c.ev[j].type = "plan:complete"}}
  /\ lastAct' = act
  /\ UNCHANGED <<budget, storage, lastStore, streamVars>>

Here == Ctx(active, history, saved)

(* A public call made by the UI or the host page.  A call that returns at  *)
(* one of its guards does nothing at all, so the action is enabled only    *)
(* when the call gets past them.                                           *)
CanCall == booted /\ ops < budget

(* A run that may be a fault (a handler that throws, an RPC that fails):   *)
(* faults are counted with the calls.                                      *)
Fault(failed) ==
  /\ failed => ops < budget
  /\ ops' = IF failed THEN ops + 1 ELSE ops

Call(c) ==
  /\ c # Here
  /\ ops' = ops + 1

(* ---------------------------------------------------------------------- *)
(* Public operations up to their first await                               *)
(* ---------------------------------------------------------------------- *)
NextPlanId == Cardinality({p \in PlanIds : IsPlan(server[p])}) + 1

(* handlePlanReceived (lines 45-58): a plan the backend just created.      *)
HandlePlanReceived ==
  \E input \in PlanInputs :
    /\ CanCall
    /\ NextPlanId <= MaxPlans
    /\ LET plan == MkPlan(NextPlanId, input.auto_execute, input.shapes)
           c0 == [Here EXCEPT !.history = setPlanHistory(active, history),
                              !.active = plan,
                              !.saved = savePlan(saved, plan, SiteId, now)]
           c1 == IF plan.auto_execute /\ plan.status = "executing"
                 THEN executeNextStep(Emit(c0, Ev("plan:start", plan.id, 0, FALSE)))
                 ELSE c0
       IN /\ \E r \in {c1} : Call(r) /\ Commit(r, 0, Act("handlePlanReceived", plan.id, 0, TRUE))
          /\ server' = [server EXCEPT ![plan.id] = plan]
    /\ UNCHANGED <<now, booted, doneAtReload>>

(* startPlan (lines 122-137).                                              *)
StartPlan ==
  /\ CanCall
  /\ LET c == IF IsPlan(active) /\ active.status = "awaiting_start"
              THEN [Here EXCEPT !.out = <<Susp("plans/start", active.id, NoStep, "")>>]
              ELSE Here
     IN \E r \in {c} : Call(r) /\ Commit(r, 0, Act("startPlan", active.id, 0, TRUE))
  /\ UNCHANGED <<server, now, booted, doneAtReload>>

(* confirmStep (lines 207-233).                                            *)
ConfirmStep ==
  \E stepId \in StepArgs, modifiedData \in BOOLEAN :
    /\ CanCall
    /\ modifiedData => stepId # UnknownStep
    /\ LET c == IF FindById(active, stepId) = 0 THEN Here
                ELSE LET c1 == IF modifiedData
                               THEN [Here EXCEPT !.active = updatePlanStep(@, stepId,
                                      [action_data |-> Spread(StepOf(active, stepId).action_data, ModifiedData)])]
                               ELSE Here
                     IN executeStep(c1, StepOf(c1.active, stepId))
       IN \E r \in {c} : Call(r) /\ Commit(r, 0, Act("confirmStep", active.id, stepId, TRUE))
    /\ UNCHANGED <<server, now, booted, doneAtReload>>

(* skipStep (lines 240-252).                                               *)
SkipStep ==
  \E stepId \in StepArgs :
    /\ CanCall
    /\ LET c == IF FindById(active, stepId) = 0 THEN Here
                ELSE [Here EXCEPT !.out = <<Susp("plans/skip-step", active.id, StepOf(active, stepId), "")>>]
       IN \E r \in {c} : Call(r) /\ Commit(r, 0, Act("skipStep", active.id, stepId, TRUE))
    /\ UNCHANGED <<server, now, booted, doneAtReload>>

(* Local guards of retryStep without the retry-count check.                *)
RetryAllowed_IgnoreCount(plan, stepId) ==
  /\ FindById(plan, stepId) # 0
  /\ StepOf(plan, stepId).is_retriable

(* The local guards of retryStep (lines 276-292).                          *)
RetryAllowed(plan, stepId) ==
  /\ FindById(plan, stepId) # 0
  /\ StepOf(plan, stepId).is_retriable
  /\ ~(StepOf(plan, stepId).retry_count >= StepOf(plan, stepId).max_retries)

(* retryStep up to its request (lines 272-296).                            *)
retryStep(c, stepId) ==
  IF ~RetryAllowed(c.active, stepId) THEN c
  ELSE [c EXCEPT !.out = <<Susp("plans/retry-step", c.active.id, StepOf(c.active, stepId), "")>>]

RetryStep ==
  \E stepId \in StepArgs :
    /\ CanCall
    /\ \E r \in {retryStep(Here, stepId)} :
         Call(r) /\ Commit(r, 0, Act("retryStep", active.id, stepId, TRUE))
    /\ UNCHANGED <<server, now, booted, doneAtReload>>

(* cancel (lines 320-328).                                                 *)
Cancel ==
  /\ CanCall
  /\ LET c == IF ~IsPlan(active) THEN Here
              ELSE [Here EXCEPT !.out = <<Susp("plans/cancel", active.id, NoStep, "")>>]
     IN \E r \in {c} : Call(r) /\ Commit(r, 0, Act("cancel", active.id, 0, TRUE))
  /\ UNCHANGED <<server, now, booted, doneAtReload>>

(* The step completeStepByAction addresses (lines 364-366), 0 when none.   *)
FindAwaitingByAction(plan, actionName) ==
  IF ~IsPlan(plan) THEN 0
  ELSE LET P(s) == s.action_name = actionName /\ s.status = "awaiting_result"
       IN FindFirst(plan.steps, P)

(* completeStepByAction (lines 352-392).                                   *)
CompleteStepByAction ==
  \E actionName \in ActionNames, success \in BOOLEAN :
    /\ CanCall
    /\ LET n == FindAwaitingByAction(active, actionName)
           step == active.steps[n]
           c == IF n = 0 THEN Here
                ELSE IF success THEN markStepComplete(Here, step.id, "data")
                ELSE LET c1 == [Here EXCEPT !.active = updatePlanStep(@, step.id, [status |-> "failed", result |-> "host_error"])]
                     IN Emit(c1, EvFull("plan:step:failed", c1.active.id, step.id, step.is_retriable, 0, "Action failed by host app"))
       IN \E r \in {c} : Call(r) /\ Commit(r, 0, Act("completeStepByAction", active.id, IF n = 0 THEN 0 ELSE step.id, success))
    /\ UNCHANGED <<server, now, booted, doneAtReload>>

(* markStepDone (lines 402-422).                                           *)
markStepDone(c, stepId) ==
  IF FindById(c.active, stepId) = 0 THEN c
  ELSE IF StepOf(c.active, stepId).status # "awaiting_result" THEN c
  ELSE markStepComplete(c, stepId, "undefined")

MarkStepDone ==
  \E stepId \in StepArgs :
    /\ CanCall
    /\ \E r \in {markStepDone(Here, stepId)} :
         Call(r) /\ Commit(r, 0, Act("markStepDone", active.id, stepId, TRUE))
    /\ UNCHANGED <<server, now, booted, doneAtReload>>

(* recoverPlan up to the getPlan request (lines 68-79), run once per page  *)
(* load by Pillar.init.                                                    *)
RecoverPlan ==
  /\ ~booted
  /\ booted' = TRUE
  /\ LET savedPlan == loadSavedPlan(saved, SiteId, now)
         c0 == [Here EXCEPT !.saved = loadSavedPlanSlot(saved, SiteId, now)]
         c == IF ~IsPlan(savedPlan) THEN c0
              ELSE [c0 EXCEPT !.out = <<Susp("plans/get", savedPlan.id, NoStep, "")>>]
     IN \E r \in {c} : Commit(r, 0, Act("recoverPlan", savedPlan.id, 0, TRUE))
  /\ UNCHANGED <<server, now, ops, doneAtReload>>

(* ---------------------------------------------------------------------- *)
(* Resumptions: an awaited handler or RPC settles                          *)
(* ---------------------------------------------------------------------- *)
Pending(i, kind) == i \in DOMAIN inflight /\ inflight[i].kind = kind

(* The handler (or the generic task dispatch) of a step finished           *)
(* (lines 465-540).                                                        *)
HandlerReturns ==
  \E i \in DOMAIN inflight :
    /\ Pending(i, "handler")
    /\ \E handlerOk \in TaskOutcomes(inflight[i].step) :
       \E d \in {executeStepDispatch(Here, inflight[i].step, handlerOk)} :
       \E c0 \in {executeStepSuccess(d.ctx, inflight[i].planId, inflight[i].step, d.result)} :
         LET k == inflight[i]
             c == IF k.step.action_name \in RegisteredActions \/ c0.invoked # 0
                  THEN c0 ELSE [c0 EXCEPT !.invoked = 0]
         IN \E r \in {c} : Commit(r, i, Act("handler.return", k.planId, k.step.id, TRUE))
    /\ UNCHANGED <<server, now, booted, ops, doneAtReload>>

(* A registered handler threw: the catch block asks for failStep           *)
(* (lines 541-551).                                                        *)
HandlerThrows ==
  \E i \in DOMAIN inflight :
    /\ Pending(i, "handler")
    /\ inflight[i].step.action_name \in RegisteredActions
    /\ LET k == inflight[i]
           c == [Here EXCEPT !.out = <<Susp("plans/fail-step", k.planId, k.step, "handler error")>>]
       IN \E r \in {c} : Commit(r, i, Act("handler.throw", k.planId, k.step.id, FALSE))
    /\ Fault(TRUE)
    /\ UNCHANGED <<server, now, booted, doneAtReload>>

(* plans/start settled (lines 137-147).                                    *)
StartPlanResponse ==
  \E i \in DOMAIN inflight, ok \in BOOLEAN :
    /\ Pending(i, "plans/start")
    /\ LET k == inflight[i]
           response == SrvStart(server[k.planId])
           c == IF ok
                THEN executeNextStep(Emit([Here EXCEPT !.active = updatePlan(@, response)],
                                          Ev("plan:start", response.id, 0, FALSE)))
                ELSE Emit(Here, EvFull("plan:error", k.planId, 0, FALSE, 0, "transport error"))
       IN /\ \E r \in {c} : Commit(r, i, Act("startPlan.response", k.planId, 0, ok))
          /\ server' = IF ok THEN [server EXCEPT ![k.planId] = response] ELSE server
    /\ Fault(~ok)
    /\ UNCHANGED <<now, booted, doneAtReload>>

(* skipStep that leaves the step alone when the RPC failed.                *)
skipStepSettled_NoFallback(c, step, response, ok) ==
  IF ok
  THEN executeNextStep(Emit([c EXCEPT !.active = updatePlan(@, response)],
                            Ev("plan:step:skip", response.id, step.id, FALSE)))
  ELSE executeNextStep(Emit(c, Ev("plan:step:skip", c.active.id, step.id, FALSE)))

(* skipStep once plans/skip-step has settled (lines 252-264).              *)
skipStepSettled(c, step, response, ok) ==
  IF ok
  THEN executeNextStep(Emit([c EXCEPT !.active = updatePlan(@, response)],
                            Ev("plan:step:skip", response.id, step.id, FALSE)))
  ELSE LET c1 == [c EXCEPT !.active = updatePlanStep(@, step.id, [status |-> "skipped"])]
       IN executeNextStep(Emit(c1, Ev("plan:step:skip", c1.active.id, step.id, FALSE)))

(* plans/skip-step settled.                                                *)
SkipStepResponse ==
  \E i \in DOMAIN inflight, ok \in BOOLEAN :
    /\ Pending(i, "plans/skip-step")
    /\ LET k == inflight[i]
           response == SrvSkip(server[k.planId], k.step.id)
           c == skipStepSettled(Here, k.step, response, ok)
       IN /\ \E r \in {c} : Commit(r, i, Act("skipStep.response", k.planId, k.step.id, ok))
          /\ server' = IF ok THEN [server EXCEPT ![k.planId] = response] ELSE server
    /\ Fault(~ok)
    /\ UNCHANGED <<now, booted, doneAtReload>>

(* retryStep that adopts the server's plan but does not walk on.           *)
retryStepSettled_NoWalk(c, step, response, ok) ==
  LET updatedStep == StepOf(response, step.id)
      retryCount == IF updatedStep.id # 0 /\ updatedStep.retry_count # 0
                    THEN updatedStep.retry_count ELSE step.retry_count + 1
  IN IF ok
     THEN Emit([c EXCEPT !.active = updatePlan(@, response)],
               EvRetry(response.id, step.id, retryCount))
     ELSE Emit(c, EvFull("plan:error", c.active.id, 0, FALSE, 0, "transport error"))

(* retryStep once plans/retry-step has settled (lines 296-314).            *)
retryStepSettled(c, step, response, ok) ==
  LET updatedStep == StepOf(response, step.id)
      retryCount == IF updatedStep.id # 0 /\ updatedStep.retry_count # 0
                    THEN updatedStep.retry_count ELSE step.retry_count + 1
  IN IF ok
     THEN executeNextStep(Emit([c EXCEPT !.active = updatePlan(@, response)],
                               EvRetry(response.id, step.id, retryCount)))
     ELSE Emit(c, EvFull("plan:error", c.active.id, 0, FALSE, 0, "transport error"))

(* plans/retry-step settled; the backend accepts a retry only for a step   *)
(* it holds as retriable.                                                  *)
RetryStepResponse ==
  \E i \in DOMAIN inflight, ok \in BOOLEAN :
    /\ Pending(i, "plans/retry-step")
    /\ ok => SrvCanRetry(server[inflight[i].planId], inflight[i].step.id)
    /\ LET k == inflight[i]
           response == SrvRetry(server[k.planId], k.step.id)
           c == retryStepSettled(Here, k.step, response, ok)
       IN /\ \E r \in {c} : Commit(r, i, Act("retryStep.response", k.planId, k.step.id, ok))
          /\ server' = IF ok THEN [server EXCEPT ![k.planId] = response] ELSE server
    /\ Fault(~ok)
    /\ UNCHANGED <<now, booted, doneAtReload>>

(* plans/cancel settled (lines 328-339).                                   *)
CancelResponse ==
  \E i \in DOMAIN inflight, ok \in BOOLEAN :
    /\ Pending(i, "plans/cancel")
    /\ LET k == inflight[i]
           response == SrvCancel(server[k.planId])
           c1 == IF ok
                 THEN Emit([Here EXCEPT !.active = updatePlan(@, response)],
                           Ev("plan:cancel", response.id, 0, FALSE))
                 ELSE Emit(Here, Ev("plan:cancel", k.planId, 0, FALSE))
           c == [c1 EXCEPT !.history = clearPlanHistory(c1.active, @, TRUE),
                           !.active = NoPlan,
                           !.saved = NoRecord]
       IN /\ \E r \in {c} : Commit(r, i, Act("cancel.response", k.planId, 0, ok))
          /\ server' = IF ok THEN [server EXCEPT ![k.planId] = response] ELSE server
    /\ Fault(~ok)
    /\ UNCHANGED <<now, booted, doneAtReload>>

(* plans/continue settled (lines 510-516, or the catch block 541-551).     *)
ContinuePlanResponse ==
  \E i \in DOMAIN inflight, ok \in BOOLEAN :
    /\ Pending(i, "plans/continue")
    /\ LET k == inflight[i]
           response == SrvContinue(server[k.planId], k.step.id, k.err)
           c == IF ok
                THEN Emit([Here EXCEPT !.active = updatePlan(@, response)],
                          Ev("plan:updated", response.id, 0, FALSE))
                ELSE [Here EXCEPT !.out = <<Susp("plans/fail-step", k.planId, k.step, "transport error")>>]
       IN /\ \E r \in {c} : Commit(r, i, Act("continuePlan.response", k.planId, k.step.id, ok))
          /\ server' = IF ok THEN [server EXCEPT ![k.planId] = response] ELSE server
    /\ Fault(~ok)
    /\ UNCHANGED <<now, booted, doneAtReload>>

(* plans/fail-step settled (lines 551-589).                                *)
FailStepResponse ==
  \E i \in DOMAIN inflight, ok \in BOOLEAN :
    /\ Pending(i, "plans/fail-step")
    /\ LET k == inflight[i]
           response == SrvFail(server[k.planId], k.step.id, k.err)
           c1 == IF ok
                 THEN [Here EXCEPT !.active = updatePlan(@, response)]
                 ELSE [Here EXCEPT !.active = updatePlanStep(@, k.step.id,
                                        [status |-> "failed", error_message |-> k.err])]
           c == executeStepFailed(c1, k.step, k.err)
       IN /\ \E r \in {c} : Commit(r, i, Act("failStep.response", k.planId, k.step.id, ok))
          /\ server' = IF ok THEN [server EXCEPT ![k.planId] = response] ELSE server
    /\ Fault(~ok)
    /\ UNCHANGED <<now, booted, doneAtReload>>

(* recoverPlan resuming whatever the server's plan status is.              *)
recoverPlanResume_AlwaysStep(c, latestPlan, ok) ==
  IF ~ok THEN [c EXCEPT !.saved = NoRecord]
  ELSE IF latestPlan.status \notin ActiveStatuses
  THEN [c EXCEPT !.saved = NoRecord]
  ELSE executeNextStep(Emit([c EXCEPT !.history = setPlanHistory(c.active, c.history),
                                      !.active = latestPlan],
                            Ev("plan:updated", latestPlan.id, 0, FALSE)))

(* recoverPlan that installs a plan the server no longer runs.             *)
recoverPlanResume_KeepEnded(c, latestPlan, ok) ==
  IF ~ok THEN [c EXCEPT !.saved = NoRecord]
  ELSE LET c1 == Emit([c EXCEPT !.history = setPlanHistory(c.active, c.history),
                                !.active = latestPlan],
                      Ev("plan:updated", latestPlan.id, 0, FALSE))
       IN IF latestPlan.status = "executing" THEN executeNextStep(c1) ELSE c1

(* recoverPlan once getPlan has settled (lines 79-109).                    *)
recoverPlanResume(c, latestPlan, ok) ==
  IF ~ok THEN [c EXCEPT !.saved = NoRecord]
  ELSE IF latestPlan.status \notin ActiveStatuses
  THEN [c EXCEPT !.saved = NoRecord]
  ELSE LET c1 == Emit([c EXCEPT !.history = setPlanHistory(c.active, c.history),
                                !.active = latestPlan],
                      Ev("plan:updated", latestPlan.id, 0, FALSE))
       IN IF latestPlan.status = "executing" THEN executeNextStep(c1) ELSE c1

(* plans/get settled: the rest of recoverPlan.                             *)
GetPlanResponse ==
  \E i \in DOMAIN inflight, ok \in BOOLEAN :
    /\ Pending(i, "plans/get")
    /\ LET k == inflight[i]
           latestPlan == server[k.planId]
           c == recoverPlanResume(Here, latestPlan, ok)
       IN \E r \in {c} : Commit(r, i, ActRet("recoverPlan.response", k.planId, 0, ok,
                               IF ok /\ latestPlan.status \in ActiveStatuses THEN latestPlan.id ELSE 0))
    /\ Fault(~ok)
    /\ UNCHANGED <<server, now, booted, doneAtReload>>

(* ---------------------------------------------------------------------- *)
(* Environment                                                             *)
(* ---------------------------------------------------------------------- *)
(* The page is reloaded: the store and every suspended call are gone, the  *)
(* localStorage slot and the backend's plans survive.                      *)
Reload ==
  \E delay \in ReloadDelays :
    /\ booted
    /\ ops < budget
    /\ ops' = ops + 1
    /\ booted' = FALSE
    /\ now' = now + delay
    /\ active' = NoPlan
    /\ history' = <<>>
    /\ inflight' = <<>>
    /\ emitted' = <<>>
    /\ invoked' = 0
    /\ taskEvents' = <<>>
    /\ completedPlans' = {}
    /\ lastAct' = Act("reload", active.id, 0, TRUE)
    /\ doneAtReload' = IF IsPlan(active)
                       THEN {active.steps[j].id : j \in {j \in DOMAIN active.steps : active.steps[j].status = "completed"}}
                       ELSE {}
    /\ UNCHANGED <<saved, server, budget, storage, lastStore, streamVars>>

(* The backend ends a plan on its own (expiry, another session).           *)
ServerEndsPlan ==
  \E p \in PlanIds, st \in TerminalStatuses :
    /\ ~booted
    /\ IsPlan(server[p])
    /\ server[p].status \in ActiveStatuses
    /\ server' = [server EXCEPT ![p].status = st]
    /\ lastAct' = Act("server.end", p, 0, TRUE)
    /\ emitted' = <<>>
    /\ invoked' = 0
    /\ taskEvents' = <<>>
    /\ UNCHANGED <<active, history, saved, inflight, now, booted, ops, doneAtReload, budget, completedPlans, storage, lastStore, streamVars>>

Next ==
  \/ HandlePlanReceived
  \/ StartPlan
  \/ ConfirmStep
  \/ SkipStep
  \/ RetryStep
  \/ Cancel
  \/ CompleteStepByAction
  \/ MarkStepDone
  \/ RecoverPlan
  \/ HandlerReturns
  \/ HandlerThrows
  \/ StartPlanResponse
  \/ SkipStepResponse
  \/ RetryStepResponse
  \/ CancelResponse
  \/ ContinuePlanResponse
  \/ FailStepResponse
  \/ GetPlanResponse
  \/ Reload
  \/ ServerEndsPlan

Spec == Init /\ [][Next]_vars

(* The executor with one unit of budget less: for properties of a single   *)
(* call or of a function of the store, where one more call, reload or      *)
(* fault is every interruption there is.                                   *)
ShortSpec == InitWithBudget(MaxOps - 1) /\ [][Next]_vars

(* A registered handler is a promise the page's event loop settles: one    *)
(* that is pending is eventually settled.                                  *)
FairSpec == ShortSpec /\ WF_vars(HandlerReturns \/ HandlerThrows)

(* ---------------------------------------------------------------------- *)
(* The persistence module on its own: its three functions called on any    *)
(* plan and site, other writers of the same localStorage, and the clock.   *)
(* ---------------------------------------------------------------------- *)
Sites == {"site-A", "site-B"}

StorePlan(status, timeout) ==
  [MkPlan(1, TRUE, <<ShapeAuto>>) EXCEPT !.status = status, !.timeout_minutes = timeout]

(* Every plan status with timeout_minutes unset, and an executing plan     *)
(* with timeout_minutes 0 and 1.                                           *)
StorePlans ==
  {StorePlan(st, <<>>) : st \in PlanStatuses}
    \cup {StorePlan("executing", <<t>>) : t \in {0, 1}}

ClockDelays == {1, DefaultTimeoutMinutes, DefaultTimeoutMinutes + 1}

(* Strings another script or another release of the SDK can leave under a  *)
(* key: not JSON, an envelope of another version, an envelope of another   *)
(* site.                                                                   *)
ForeignItems(siteId, time) ==
  { [kind |-> "text"],
    JSONstringify([version |-> STORAGE_VERSION + 1, plan |-> StorePlan("executing", <<>>),
                   siteId |-> siteId, storedAt |-> toISOString(time)]),
    JSONstringify([version |-> STORAGE_VERSION, plan |-> StorePlan("executing", <<>>),
                   siteId |-> CHOOSE o \in Sites : o # siteId, storedAt |-> toISOString(time)]) }

HasItem(store, siteId) == getItem(store, getStorageKey(siteId)) # NoItem

StoreStep ==
  /\ ops < budget
  /\ ops' = ops + 1
  /\ UNCHANGED <<active, history, saved, server, inflight, booted, budget,
                 emitted, invoked, lastAct, doneAtReload, taskEvents, completedPlans, streamVars>>

SavePlan ==
  \E plan \in StorePlans, siteId \in Sites :
    /\ StoreStep
    /\ storage' = savePlanIn(storage, plan, siteId, now)
    /\ lastStore' = StoreOp("savePlan", siteId, plan, NoPlan, HasItem(storage, siteId))
    /\ now' = now

LoadSavedPlan ==
  \E siteId \in Sites :
    /\ StoreStep
    /\ LET r == loadSavedPlanFrom(storage, siteId, now)
       IN /\ storage' = r.store
          /\ lastStore' = StoreOp("loadSavedPlan", siteId, NoPlan, r.plan, HasItem(storage, siteId))
    /\ now' = now

ClearSavedPlan ==
  \E siteId \in Sites :
    /\ StoreStep
    /\ storage' = clearSavedPlanIn(storage, siteId)
    /\ lastStore' = StoreOp("clearSavedPlan", siteId, NoPlan, NoPlan, HasItem(storage, siteId))
    /\ now' = now

ForeignWrite ==
  \E siteId \in Sites :
    \E item \in ForeignItems(siteId, now) :
      /\ StoreStep
      /\ storage' = setItem(storage, getStorageKey(siteId), item)
      /\ lastStore' = StoreOp("foreign", siteId, NoPlan, NoPlan, HasItem(storage, siteId))
      /\ now' = now

ClockAdvances ==
  \E delay \in ClockDelays :
    /\ StoreStep
    /\ now' = now + delay
    /\ lastStore' = StoreOp("clock", "", NoPlan, NoPlan, FALSE)
    /\ storage' = storage

StoreNext ==
  \/ SavePlan
  \/ LoadSavedPlan
  \/ ClearSavedPlan
  \/ ForeignWrite
  \/ ClockAdvances

StoreSpec == Init /\ [][StoreNext]_vars

(* ---------------------------------------------------------------------- *)
(* One call of callToolStream: the body arrives whole or in two chunks,    *)
(* and the read can be aborted or fail at any await.                       *)
(* ---------------------------------------------------------------------- *)
Bodies == UNION {[1..n -> Frames] : n \in 1..MaxFrames}

ChunksOf(text, split) ==
  IF split = 0 \/ split >= Len(text) THEN <<text>>
  ELSE <<SubSeq(text, 1, split), SubSeq(text, split + 1, Len(text))>>

StreamStep ==
  UNCHANGED <<active, history, saved, server, inflight, now, booted, ops, budget,
              emitted, invoked, lastAct, doneAtReload, taskEvents, completedPlans,
              storage, lastStore>>

StreamHere ==
  [buffer |-> buffer, collectedText |-> collectedText, finalResult |-> finalResult,
   trace |-> trace, stop |-> FALSE]

(* The text the server sends for the frames: every line ended by a newline, *)
(* or the last line left without one.                                      *)
BodyText(frames, terminated) ==
  IF terminated THEN BodyOf(frames)
  ELSE SubSeq(BodyOf(frames), 1, Len(BodyOf(frames)) - 1)

(* fetch answered and getReader() locked the body (lines 214-238).         *)
CallToolStream ==
  /\ streamPhase = "idle"
  /\ \E frames \in Bodies, terminated \in BOOLEAN :
    \E split \in 0..(Len(BodyText(frames, terminated)) - 1) :
      /\ streamPhase' = "reading"
      /\ streamBody' = BodyText(frames, terminated)
      /\ chunksLeft' = ChunksOf(BodyText(frames, terminated), split)
      /\ buffer' = <<>>
      /\ collectedText' = <<>>
      /\ finalResult' = NoResult
      /\ trace' = <<>>
      /\ UNCHANGED <<releases, settled>>
      /\ StreamStep

(* reader.read() delivered a chunk.                                        *)
ReadChunk ==
  /\ streamPhase = "reading"
  /\ chunksLeft # <<>>
  /\ \E st \in {processChunk(StreamHere, Head(chunksLeft))} :
       /\ buffer' = st.buffer
       /\ collectedText' = st.collectedText
       /\ finalResult' = st.finalResult
       /\ trace' = st.trace
  /\ chunksLeft' = Tail(chunksLeft)
  /\ UNCHANGED <<streamPhase, streamBody, releases, settled>>
  /\ StreamStep

(* reader.read() reported done: break, finally, build the result, return.  *)
ReadDone ==
  /\ streamPhase = "reading"
  /\ chunksLeft = <<>>
  /\ streamPhase' = "returned"
  /\ releases' = releases + 1
  /\ settled' = buildResult(StreamHere)
  /\ UNCHANGED <<chunksLeft, streamBody, buffer, collectedText, finalResult, trace>>
  /\ StreamStep

(* An abort handled like any other read failure.                           *)
ReadAborted_ReportsError ==
  /\ streamPhase = "reading"
  /\ streamPhase' = "rejected"
  /\ releases' = releases + 1
  /\ trace' = Append(trace, Called("onError", <<"AbortError">>))
  /\ settled' = [kind |-> "rejected", error |-> "AbortError"]
  /\ UNCHANGED <<chunksLeft, streamBody, buffer, collectedText, finalResult>>
  /\ StreamStep

(* The abort signal fired: reader.read() rejects with an AbortError        *)
(* (lines 326-329, 333-335).                                               *)
ReadAborted ==
  /\ streamPhase = "reading"
  /\ streamPhase' = "rejected"
  /\ releases' = releases + 1
  /\ settled' = [kind |-> "rejected", error |-> "AbortError"]
  /\ UNCHANGED <<chunksLeft, streamBody, buffer, collectedText, finalResult, trace>>
  /\ StreamStep

(* reader.read() rejects with any other error (lines 331-335).             *)
ReadFails ==
  /\ streamPhase = "reading"
  /\ streamPhase' = "rejected"
  /\ releases' = releases + 1
  /\ trace' = Append(trace, Called("onError", <<"r">>))
  /\ settled' = [kind |-> "rejected", error |-> "r"]
  /\ UNCHANGED <<chunksLeft, streamBody, buffer, collectedText, finalResult>>
  /\ StreamStep

StreamNext ==
  \/ CallToolStream
  \/ ReadChunk
  \/ ReadDone
  \/ ReadAborted
  \/ ReadFails

StreamSpec == Init /\ [][StreamNext]_vars

(* ====================================================================== *)
(* Properties                                                              *)
(* ====================================================================== *)
ExecutorOps == {"handlePlanReceived", "startPlan.response", "confirmStep",
                "skipStep.response", "retryStep.response", "completeStepByAction",
                "markStepDone", "handler.return", "failStep.response",
                "continuePlan.response"}

CountKind(kind) == Cardinality({i \in DOMAIN inflight : inflight[i].kind = kind})

CountEvents(evs, type) == Cardinality({i \in DOMAIN evs : evs[i].type = type})

(* C1: after every executor operation that replaces the active plan or     *)
(* changes a step's status, the record persisted for the site equals the   *)
(* plan in the active store by the time the run returns or suspends.       *)
C1_PersistedEqualsActive ==
  (lastAct.op \in ExecutorOps /\ IsPlan(active) /\ active.status \in ActiveStatuses)
    => (saved.version # 0 /\ saved.plan = active)

(* C2: after a reload, recoverPlan never starts the handler of a step that *)
(* was already completed before the reload.                                *)
C2_NoCompletedStepRerun ==
  lastAct.op = "recoverPlan.response" => invoked \notin doneAtReload

(* C3: while a plan received with auto_execute=false is still              *)
(* awaiting_start, no handler has been started and no step has left the    *)
(* status it was received in.                                              *)
C3_NoStepBeforeStart ==
  (IsPlan(active) /\ active.status = "awaiting_start")
    => /\ invoked = 0
       /\ CountKind("handler") = 0
       /\ \A i \in DOMAIN active.steps : active.steps[i].status \in {"ready", "pending"}

(* C4: duplicate startPlan() calls cause at most one plans/start request   *)
(* to be outstanding for the plan.                                         *)
C4_AtMostOneStartRpc == CountKind("plans/start") <= 1

(* C5: cancel() has cleared the active store and the persisted record      *)
(* before the plans/cancel response arrives: while that request is in      *)
(* flight the cancelled plan is neither active nor persisted.              *)
C5_ClearedBeforeResponse ==
  \A i \in DOMAIN inflight :
    inflight[i].kind = "plans/cancel"
      => /\ active.id # inflight[i].planId
         /\ (saved.version # 0 => saved.plan.id # inflight[i].planId)

(* C6: a cancel() whose own request is settled by the very next run (the   *)
(* request it sent is the last one in flight and is the one removed)       *)
(* leaves the store empty, the persisted record removed, the cancelled     *)
(* plan last in the history and exactly one plan:cancel emitted, whether   *)
(* the RPC succeeded or failed.                                            *)
C6_CancelAlwaysClears ==
  [][(/\ lastAct.op = "cancel"
      /\ lastAct'.op = "cancel.response"
      /\ lastAct'.plan = lastAct.plan
      /\ inflight' = SubSeq(inflight, 1, Len(inflight) - 1))
       => /\ emitted = <<>>
          /\ active' = NoPlan
          /\ saved' = NoRecord
          /\ Len(history') = Len(history) + 1
          /\ history'[Len(history')].id = active.id
          /\ emitted' = <<Ev("plan:cancel", active.id, 0, FALSE)>>
          /\ lastAct'.ok => history'[Len(history')].status = "cancelled"]_vars

C6_Witness ==
  /\ lastAct.op = "cancel.response"
  /\ ~lastAct.ok
  /\ ~IsPlan(active)
  /\ saved = NoRecord
  /\ history # <<>>
  /\ history[Len(history)].id = lastAct.plan
  /\ history[Len(history)].status = "executing"

(* Two plans that differ at most in the statuses of their steps.           *)
SameButStepStatus(p, q) ==
  /\ DOMAIN p.steps = DOMAIN q.steps
  /\ [p EXCEPT !.steps = [i \in DOMAIN p.steps |-> [p.steps[i] EXCEPT !.status = ""]]]
       = [q EXCEPT !.steps = [i \in DOMAIN q.steps |-> [q.steps[i] EXCEPT !.status = ""]]]

(* C7: recoverPlan runs no handler and installs nothing before getPlan     *)
(* answers; on an answer with an active status the store is the server's   *)
(* plan, one plan:updated is emitted, and stepping resumes exactly when    *)
(* the server's status is executing.                                       *)
C7_RecoverAdoptsServerPlan ==
  [][/\ lastAct'.op = "recoverPlan"
          => (active' = active /\ history' = history /\ invoked' = 0 /\ emitted' = <<>>)
     /\ (lastAct'.op = "recoverPlan.response" /\ lastAct'.ok
           /\ server[lastAct'.plan].status \in ActiveStatuses)
          => LET sp == server[lastAct'.plan]
             IN /\ lastAct'.ret = sp.id
                /\ emitted'[1] = Ev("plan:updated", sp.id, 0, FALSE)
                /\ CountEvents(emitted', "plan:updated") = 1
                /\ IsPlan(active') => SameButStepStatus(active', sp)
                /\ ~IsPlan(active') => CountEvents(emitted', "plan:complete") = 1
                /\ sp.status # "executing"
                     => (active' = sp /\ invoked' = 0 /\ Len(emitted') = 1
                         /\ Len(inflight') = Len(inflight) - 1)
                /\ (sp.status = "executing" /\ \E i \in DOMAIN sp.steps : sp.steps[i].status = "ready")
                     => (active' # sp /\ Len(emitted') = 2)]_vars

C7_Witness ==
  /\ lastAct.op = "recoverPlan.response"
  /\ lastAct.ret # 0
  /\ IsPlan(active)
  /\ saved.version # 0
  /\ \E i \in DOMAIN active.steps :
        /\ active.steps[i].status = "completed"
        /\ saved.plan.steps[i].status = "ready"
  /\ CountKind("handler") = 1

(* C8: when getPlan fails or reports a completed, failed or cancelled      *)
(* plan, recoverPlan returns null, removes the persisted record, leaves    *)
(* the store alone, runs and emits nothing, and issued one plans/get only. *)
C8_RecoverFailsClosed ==
  [][/\ (lastAct'.op = "recoverPlan" /\ lastAct'.plan # 0)
          => (CountKind("plans/get") = 0 /\ Len(inflight') = Len(inflight) + 1
              /\ inflight'[Len(inflight')].kind = "plans/get")
     /\ (lastAct'.op = "recoverPlan.response"
           /\ (~lastAct'.ok \/ server[lastAct'.plan].status \in TerminalStatuses))
          => /\ lastAct'.ret = 0
             /\ saved' = NoRecord
             /\ active' = active
             /\ history' = history
             /\ emitted' = <<>>
             /\ invoked' = 0
             /\ Len(inflight') = Len(inflight) - 1
             /\ \A i \in DOMAIN inflight' : inflight'[i].kind # "plans/get"]_vars

C8_Witness ==
  /\ lastAct.op = "recoverPlan.response"
  /\ lastAct.ok
  /\ server[lastAct.plan].status = "completed"
  /\ lastAct.ret = 0
  /\ saved = NoRecord
  /\ ~IsPlan(active)

(* The step status edges of the executor's state machine.                  *)
StepEdges == {
  <<"pending", "ready">>,
  <<"ready", "awaiting_confirmation">>,
  <<"ready", "executing">>,
  <<"awaiting_confirmation", "executing">>,
  <<"executing", "completed">>,
  <<"executing", "awaiting_result">>,
  <<"awaiting_result", "completed">>,
  <<"executing", "failed">>,
  <<"awaiting_result", "failed">>,
  <<"failed", "ready">>,
  <<"ready", "skipped">>,
  <<"awaiting_confirmation", "skipped">> }

(* C9: every change of a step's status in the active plan follows one of   *)
(* the edges of the step state machine.                                    *)
C9_OnlyStateMachineEdges ==
  [][(IsPlan(active) /\ IsPlan(active') /\ active.id = active'.id)
       => \A i \in DOMAIN active.steps \cap DOMAIN active'.steps :
             \/ active'.steps[i].status = active.steps[i].status
             \/ <<active.steps[i].status, active'.steps[i].status>> \in StepEdges]_vars

(* C10: when failStep settles after a handler exception the call resolves; *)
(* the step is failed; plan:step:failed carries canRetry computed from the *)
(* step now in the store, then plan:step:complete with success=false, and  *)
(* plan:error exactly when canRetry is false.                              *)
C10_HandlerFailureHandled ==
  [][lastAct'.op = "failStep.response"
       => LET st == StepOf(active', lastAct'.step)
              e == emitted'
          IN /\ Len(inflight') = Len(inflight) - 1
             /\ Len(e) >= 2
             /\ e[1].type = "plan:step:failed"
             /\ e[1].step = lastAct'.step
             /\ e[2] = Ev("plan:step:complete", e[1].plan, lastAct'.step, FALSE)
             /\ Len(e) = (IF e[1].flag THEN 2 ELSE 3)
             /\ ~e[1].flag => e[3].type = "plan:error"
             /\ st.id # 0
                  => /\ st.status = "failed"
                     /\ e[1].flag = (st.is_retriable /\ st.retry_count < st.max_retries)
             /\ (st.id # 0 /\ ~lastAct'.ok) => st.error_message = e[1].error]_vars

C10_Witness ==
  /\ lastAct.op = "failStep.response"
  /\ ~lastAct.ok
  /\ Len(emitted) = 2
  /\ emitted[1].error = "handler error"
  /\ emitted[1].flag
  /\ StepOf(active, lastAct.step).status = "failed"

(* C11: markStepDone on a step that is not awaiting_result, and retryStep  *)
(* on a step that is not retriable or has used up its retries, change       *)
(* neither the active plan, the history nor the persisted record, send no   *)
(* RPC and emit no event.                                                   *)
C11_GuardedCallsChangeNothing ==
  \A stepId \in StepArgs :
    /\ (IF FindById(active, stepId) = 0 THEN TRUE
        ELSE StepOf(active, stepId).status # "awaiting_result")
         => markStepDone(Here, stepId) = Here
    /\ (IF FindById(active, stepId) = 0 THEN FALSE
        ELSE \/ ~StepOf(active, stepId).is_retriable
             \/ StepOf(active, stepId).retry_count >= StepOf(active, stepId).max_retries)
         => retryStep(Here, stepId) = Here

C11_Witness ==
  /\ lastAct.op = "failStep.response"
  /\ IsPlan(active)
  /\ \E i \in DOMAIN active.steps :
       /\ active.steps[i].status = "failed"
       /\ active.steps[i].is_retriable
       /\ active.steps[i].retry_count >= active.steps[i].max_retries

(* C12: a confirmStep call for a step that is not awaiting_confirmation    *)
(* is ignored: the active plan does not change, no handler is invoked and  *)
(* no event is emitted.                                                    *)
C12_ConfirmIgnoredUnlessAwaitingConfirmation ==
  [][(/\ lastAct'.op = "confirmStep"
      /\ StepOf(active, lastAct'.step).status # "awaiting_confirmation")
       => /\ active' = active
          /\ invoked' = 0
          /\ emitted' = <<>>]_vars

(* The plan a run left behind: the active plan, or the plan it archived.   *)
PlanLeftBy(a, h) == IF IsPlan(a) THEN a ELSE h[Len(h)]

(* C13: when skipStep is called for a step that is ready or awaiting       *)
(* confirmation and its plans/skip-step request settles next, the step is  *)
(* left skipped and exactly one plan:step:skip is emitted, whether the RPC *)
(* succeeded or failed; the walk then goes on, and a one-step plan whose   *)
(* step was awaiting confirmation is completed and cleared.                *)
C13_SkipLeavesStepSkipped ==
  [][(/\ lastAct.op = "skipStep"
      /\ lastAct'.op = "skipStep.response"
      /\ lastAct'.plan = lastAct.plan
      /\ lastAct'.step = lastAct.step
      /\ StepOf(active, lastAct.step).status \in {"ready", "awaiting_confirmation"})
       => /\ CountEvents(emitted', "plan:step:skip") = 1
          /\ emitted'[1] = Ev("plan:step:skip", active.id, lastAct.step, FALSE)
          /\ StepOf(PlanLeftBy(active', history'), lastAct.step).status = "skipped"
          /\ (IsPlan(active') /\ \E i \in DOMAIN active'.steps : active'.steps[i].status = "ready")
               => (invoked' # 0 \/ CountEvents(emitted', "plan:step:confirm") = 1
                                \/ CountEvents(emitted', "plan:step:active") = 1)
          /\ (Len(active.steps) = 1 /\ active.steps[1].status = "awaiting_confirmation")
               => /\ emitted'[Len(emitted')] = Ev("plan:complete", active.id, 0, FALSE)
                  /\ ~IsPlan(active')
                  /\ saved' = NoRecord]_vars

C13_Witness ==
  /\ lastAct.op = "skipStep.response"
  /\ ~lastAct.ok
  /\ ~IsPlan(active)
  /\ history # <<>>
  /\ Len(history[Len(history)].steps) = 1
  /\ history[Len(history)].steps[1].status = "skipped"
  /\ emitted = <<Ev("plan:step:skip", lastAct.plan, lastAct.step, FALSE),
                 Ev("plan:complete", lastAct.plan, 0, FALSE)>>

(* C14: when retryStep passed its guards and plans/retry-step fails, the   *)
(* retry is applied to the step locally and plan:step:retry is emitted.    *)
C14_RetryFallsBackLocally ==
  [][(/\ lastAct'.op = "retryStep.response"
      /\ ~lastAct'.ok
      /\ active.id = lastAct'.plan
      /\ FindById(active, lastAct'.step) # 0)
       => /\ CountEvents(emitted', "plan:step:retry") = 1
          /\ StepOf(active', lastAct'.step) # StepOf(active, lastAct'.step)]_vars

AllAutomatic(plan) ==
  /\ IsPlan(plan)
  /\ plan.auto_execute /\ plan.status = "executing"
  /\ \A j \in DOMAIN plan.steps :
       /\ plan.steps[j].auto_complete
       /\ ~plan.steps[j].requires_user_confirmation
       /\ ~plan.steps[j].requires_result_feedback

(* Nothing but the receipt of the first plan and successful handler runs   *)
(* has happened so far: no other call, no reload, no fault.                *)
Undisturbed == ops = 1 /\ lastAct.op \in {"handlePlanReceived", "handler.return"}

AutoRunFinished ==
  /\ Undisturbed
  /\ lastAct.op = "handler.return"
  /\ ~IsPlan(active)
  /\ saved = NoRecord
  /\ Len(history) = 1
  /\ \A j \in DOMAIN history[1].steps : history[1].steps[j].status = "completed"
  /\ CountEvents(emitted, "plan:complete") = 1
  /\ emitted[Len(emitted)].type = "plan:complete"

(* C16: a received auto_execute plan whose steps are all ready,            *)
(* auto_complete, without confirmation or feedback, and whose handlers     *)
(* succeed, is driven by handlePlanReceived alone to the end: the steps     *)
(* complete in index order, plan:complete is emitted exactly once (with the *)
(* last handler's return, never before), and the active plan and the       *)
(* persisted record are then empty.                                        *)
C16_AutoPlanRunsToCompletion ==
  /\ [](Undisturbed /\ AllAutomatic(active)
         => /\ CountEvents(emitted, "plan:complete") = 0
            /\ \E j \in DOMAIN active.steps :
                 /\ active.steps[j].status = "executing"
                 /\ invoked = active.steps[j].id
                 /\ \A k \in 1..(j - 1) : active.steps[k].status = "completed"
                 /\ \A k \in (j + 1)..Len(active.steps) : active.steps[k].status = "ready")
  /\ ((lastAct.op = "handlePlanReceived" /\ ops = 1 /\ AllAutomatic(active))
        ~> (AutoRunFinished \/ ops > 1))

C16_Witness == AutoRunFinished /\ Len(history[1].steps) = 2

(* C17: when several steps of the active plan carry the given action name  *)
(* and are awaiting_result, completeStepByAction acts on the last of them  *)
(* in step order and leaves the others as they were.                       *)
C17_CompletesMostRecentAwaitingStep ==
  [][(lastAct'.op = "completeStepByAction" /\ IsPlan(active))
       => LET name == StepOf(active, lastAct'.step).action_name
              awaiting == {j \in DOMAIN active.steps :
                             /\ active.steps[j].action_name = name
                             /\ active.steps[j].status = "awaiting_result"}
              last == CHOOSE j \in awaiting : \A k \in awaiting : k <= j
              left == PlanLeftBy(active', history')
          IN /\ awaiting # {}
             /\ active.steps[last].id = lastAct'.step
             /\ \A j \in awaiting \ {last} : left.steps[j] = active.steps[j]]_vars

(* The envelope stored for a site, when the item there parses as one.      *)
HasRecord(store, siteId) ==
  /\ getItem(store, getStorageKey(siteId)) # NoItem
  /\ ~ParseThrows(getItem(store, getStorageKey(siteId)))
RecordOf(store, siteId) == JSONparse(getItem(store, getStorageKey(siteId)))

(* C18: the record persisted for a site, when there is one, holds a plan   *)
(* with an active status; savePlan of a plan whose status is completed,    *)
(* failed or cancelled writes nothing and removes the site's record.       *)
C18_OnlyActivePlansPersisted ==
  /\ [](\A siteId \in Sites :
          HasRecord(storage, siteId)
            => RecordOf(storage, siteId).plan.status \in ActiveStatuses)
  /\ [][(lastStore'.fn = "savePlan" /\ lastStore'.plan.status \in TerminalStatuses)
          => /\ getItem(storage', getStorageKey(lastStore'.site)) = NoItem
             /\ \A siteId \in Sites \ {lastStore'.site} :
                  getItem(storage', getStorageKey(siteId)) = getItem(storage, getStorageKey(siteId))]_vars

C18_Witness ==
  /\ lastStore.fn = "savePlan"
  /\ lastStore.plan.status = "cancelled"
  /\ lastStore.site = "site-A"
  /\ lastStore.had
  /\ ~HasItem(storage, "site-A")
  /\ HasItem(storage, "site-B")

StatedTimeout(plan) ==
  IF plan.timeout_minutes = <<>> THEN DefaultTimeoutMinutes ELSE plan.timeout_minutes[1]

(* C20: loadSavedPlan of a site whose key holds an item returns null and   *)
(* removes the item exactly when the item cannot be parsed, its version is *)
(* not 1, its siteId is not the requested one, or its age in minutes is    *)
(* strictly greater than plan.timeout_minutes (30 when unset); otherwise   *)
(* it returns the stored plan and leaves the item in place.                *)
C20_LoadRejectsExactlyInvalid ==
  [][(lastStore'.fn = "loadSavedPlan" /\ lastStore'.had)
       => LET siteId == lastStore'.site
              item == getItem(storage, getStorageKey(siteId))
              invalid == \/ ParseThrows(item)
                         \/ JSONparse(item).version # STORAGE_VERSION
                         \/ JSONparse(item).siteId # siteId
                         \/ now - getTime(JSONparse(item).storedAt) > StatedTimeout(JSONparse(item).plan)
          IN IF invalid
             THEN lastStore'.ret = NoPlan /\ ~HasItem(storage', siteId)
             ELSE lastStore'.ret = JSONparse(item).plan /\ storage' = storage]_vars

(* The updates the executor passes to updatePlanStep, one per status, with *)
(* and without further fields.                                             *)
StepUpdates ==
  {[status |-> st] : st \in StepStatuses}
    \cup {[status |-> "completed", result |-> "ok"],
          [status |-> "failed", error_message |-> "handler error"],
          [result |-> "data"]}

(* C21: updatePlanStep with status completed leaves completed_steps equal  *)
(* to the number of completed steps; any other updatePlanStep leaves       *)
(* completed_steps as it was; and no step but the one with the given id    *)
(* changes.                                                                *)
C21_CompletedStepsRecounted ==
  IsPlan(active) =>
    \A stepId \in StepArgs \cup {0}, updates \in StepUpdates :
      LET after == updatePlanStep(active, stepId, updates)
      IN /\ ("status" \in DOMAIN updates /\ updates.status = "completed")
              => after.completed_steps = CountCompleted(after.steps)
         /\ ~("status" \in DOMAIN updates /\ updates.status = "completed")
              => after.completed_steps = active.completed_steps
         /\ \A j \in DOMAIN active.steps :
              active.steps[j].id # stepId => after.steps[j] = active.steps[j]
         /\ [after EXCEPT !.steps = active.steps, !.completed_steps = active.completed_steps] = active

(* A handler returned, updatePlanStep completed its step and recounted,    *)
(* and the walk moved on to the next step.                                 *)
C21_Witness ==
  /\ IsPlan(active)
  /\ active.completed_steps = 1
  /\ CountCompleted(active.steps) = 1
  /\ lastAct.op = "handler.return"
  /\ \E j \in DOMAIN active.steps : active.steps[j].status = "executing"

(* The texts handed to onToken, in order.                                  *)
TokensIn(tr) == LET IsToken(e) == e.cb = "onToken" IN SelectSeq(tr, IsToken)
CallsOf(tr, cb) == LET Is(e) == e.cb = cb IN Len(SelectSeq(tr, Is))
FrameCallbacks == {"onToken", "onPlan", "onProgress", "onSources", "onActions", "onComplete"}

(* C22: a body delivered in two chunks, split anywhere, gives the same     *)
(* onToken calls and the same returned result as the body delivered whole. *)
C22_ChunkingInvisible ==
  streamPhase = "returned"
    => LET whole == readAll(StreamStart, <<streamBody>>)
       IN /\ TokensIn(trace) = TokensIn(whole.trace)
          /\ settled = buildResult(whole)

(* C23: a JSON-RPC error frame invokes onError exactly once with its       *)
(* message and makes callToolStream reject with that error; nothing after  *)
(* the error frame reaches a callback.                                     *)
C23_ErrorFrameRejects ==
  \A i \in DOMAIN trace :
    trace[i] = Called("onError", <<"e">>)
      => /\ i = Len(trace)
         /\ streamPhase = "rejected"
         /\ settled = [kind |-> "rejected", error |-> "e"]

(* C24: after a progress frame of kind cancelled no later frame, in the    *)
(* same chunk or a later one, reaches onToken, onPlan, onProgress,         *)
(* onSources, onActions or onComplete.                                     *)
C24_CancelledStopsDispatch ==
  \A i \in DOMAIN trace :
    trace[i].cb = "break"
      => \A j \in (i + 1)..Len(trace) : trace[j].cb \notin FrameCallbacks

(* C25: a stream that ends without a result frame for this request         *)
(* (frames of other requests included) resolves with a non-error result    *)
(* whose text is the tokens given to onToken, concatenated in order, and   *)
(* onComplete is not invoked.                                              *)
C25_FallbackResultFromTokens ==
  (/\ streamPhase = "returned"
   /\ \A k \in DOMAIN streamBody : streamBody[k].f # "result:mine")
    => /\ settled.kind = "resolved"
       /\ ~settled.isError
       /\ settled.text = Join([k \in DOMAIN TokensIn(trace) |-> TokensIn(trace)[k].arg])
       /\ settled.text = Join(collectedText)
       /\ CallsOf(trace, "onComplete") = 0

C25_Witness ==
  /\ streamPhase = "returned"
  /\ \E k \in DOMAIN streamBody : streamBody[k].f = "result:other"
  /\ \A k \in DOMAIN streamBody : streamBody[k].f # "result:mine"
  /\ settled.text = <<"b", "a">>
  /\ buffer = <<>>

(* C26: an abort during the read rejects with the abort error and invokes  *)
(* no onError; any other read failure invokes onError once and rejects     *)
(* with that failure; and on every way out (end of stream, abort, read     *)
(* failure) the reader's lock is released exactly once.                    *)
C26_AbortSilentLockReleasedOnce ==
  /\ [](/\ streamPhase \in {"idle", "reading"} => releases = 0 /\ settled = NotSettled
        /\ streamPhase \in {"returned", "rejected"} => releases = 1
        /\ streamPhase = "returned" => settled.kind = "resolved"
        /\ streamPhase = "rejected" => settled.kind = "rejected")
  /\ [][(streamPhase = "reading" /\ streamPhase' = "rejected")
          => IF settled'.error = "AbortError"
             THEN trace' = trace
             ELSE /\ trace' = Append(trace, Called("onError", <<settled'.error>>))
                  /\ CallsOf(trace', "onError") = CallsOf(trace, "onError") + 1]_vars

C26_Witness ==
  /\ streamPhase = "rejected"
  /\ settled.error = "AbortError"
  /\ releases = 1
  /\ Len(trace) = 2
  /\ CallsOf(trace, "onError") = 0
  /\ chunksLeft # <<>>

(* The runs that belong to a call made before the cancel: the settling of  *)
(* its RPC, or the end of a step handler.                                  *)
LateRuns == {"continuePlan.response", "failStep.response", "skipStep.response",
             "retryStep.response", "startPlan.response", "handler.return", "handler.throw"}

(* C27: once cancel() has cleared the active plan, a late response to a    *)
(* continuePlan, failStep, skipStep, retryStep or startPlan request of the *)
(* cancelled plan, or a step handler of it that finishes afterwards,       *)
(* leaves the active store empty, starts no handler and emits no           *)
(* plan:complete.                                                          *)
C27_CancelledPlanStaysCleared ==
  [][(/\ lastAct.op = "cancel.response"
      /\ ~IsPlan(active)
      /\ lastAct'.op \in LateRuns
      /\ lastAct'.plan = lastAct.plan)
       => /\ ~IsPlan(active')
          /\ invoked' = 0
          /\ CountEvents(emitted', "plan:complete") = 0]_vars

(* C28: at most one step of the active plan is executing, and at most one  *)
(* step handler is running, whatever calls arrive while the walk has a     *)
(* handler or an RPC in flight.                                            *)
C28_OneStepAtATime ==
  /\ IsPlan(active)
       => Cardinality({j \in DOMAIN active.steps : active.steps[j].status = "executing"}) <= 1
  /\ CountKind("handler") <= 1

(* The states executeNextStep is called in: the store as it is between two *)
(* runs, and the store after one step of the plan was given any status.    *)
WalkEntries ==
  {Here} \cup {[Here EXCEPT !.active = updatePlanStep(@, stepId, [status |-> st])] :
                 stepId \in StepArgs, st \in StepStatuses}

(* C29: executeNextStep emits plan:complete only when no step is ready, no *)
(* confirmation-requiring step is awaiting_confirmation and every step is  *)
(* completed, skipped or failed, and then clears the active plan and the   *)
(* persisted record; when nothing is selectable and a step is pending,     *)
(* executing or awaiting_result it emits nothing and changes nothing.      *)
C29_CompleteOnlyWhenAllDone ==
  /\ [](IsPlan(active) =>
         \A c0 \in WalkEntries :
           LET c == executeNextStep(c0)
               steps == c0.active.steps
           IN /\ CountEvents(c.ev, "plan:complete") > CountEvents(c0.ev, "plan:complete")
                   => /\ \A j \in DOMAIN steps :
                           /\ steps[j].status # "ready"
                           /\ steps[j].status \in {"completed", "skipped", "failed"}
                      /\ c.ev = Append(c0.ev, Ev("plan:complete", c0.active.id, 0, FALSE))
                      /\ c.active = NoPlan
                      /\ c.saved = NoRecord
              /\ (/\ SelectStep(c0.active) = 0
                  /\ \E j \in DOMAIN steps :
                       steps[j].status \in {"pending", "executing", "awaiting_result"})
                   => c = c0)
  /\ [][CountEvents(emitted', "plan:complete") > 0
          => /\ ~IsPlan(active')
             /\ saved' = NoRecord
             /\ CountEvents(emitted', "plan:complete") = 1
             /\ \A j \in DOMAIN PlanLeftBy(active', history').steps :
                  PlanLeftBy(active', history').steps[j].status \in {"completed", "skipped", "failed"}]_vars

C29_Witness ==
  /\ lastAct.op = "skipStep.response"
  /\ lastAct.ok
  /\ emitted # <<>>
  /\ emitted[Len(emitted)].type = "plan:complete"
  /\ ~IsPlan(active)
  /\ saved = NoRecord
  /\ Len(history) = 1

(* C30: the walk never runs a step that requires confirmation: selected    *)
(* in status ready it becomes awaiting_confirmation with one               *)
(* plan:step:confirm event and nothing else happens; found already         *)
(* awaiting_confirmation nothing changes; its handler is started only by   *)
(* confirmStep for that step, and with modifiedData the handler receives   *)
(* action_data merged with modifiedData, the modified fields winning.      *)
C30_ConfirmationGatesExecution ==
  /\ [](IsPlan(active) =>
         \A c0 \in WalkEntries :
           LET n == SelectStep(c0.active)
               c == executeNextStep(c0)
           IN (n # 0 /\ c0.active.steps[n].requires_user_confirmation)
                => LET step == c0.active.steps[n]
                   IN /\ c.out = c0.out /\ c.invoked = c0.invoked
                      /\ step.status = "awaiting_confirmation" => c = c0
                      /\ step.status = "ready"
                           => /\ c.ev = Append(c0.ev, Ev("plan:step:confirm", c0.active.id, step.id, FALSE))
                              /\ c.active.steps[n] = [step EXCEPT !.status = "awaiting_confirmation"]
                              /\ \A j \in DOMAIN c0.active.steps :
                                   j # n => c.active.steps[j] = c0.active.steps[j])
  /\ [][(invoked' # 0 /\ StepOf(active', invoked').requires_user_confirmation)
          => /\ lastAct'.op = "confirmStep"
             /\ lastAct'.step = invoked'
             /\ LET data == inflight'[Len(inflight')].step.action_data
                    old == StepOf(active, invoked').action_data
                IN \/ data = old
                   \/ /\ DOMAIN data = DOMAIN old \cup DOMAIN ModifiedData
                      /\ \A k \in DOMAIN ModifiedData : data[k] = ModifiedData[k]
                      /\ \A k \in DOMAIN old \ DOMAIN ModifiedData : data[k] = old[k]]_vars

C30_Witness ==
  /\ lastAct.op = "confirmStep"
  /\ invoked = lastAct.step
  /\ IsPlan(active)
  /\ StepOf(active, invoked).requires_user_confirmation
  /\ StepOf(active, invoked).status = "executing"
  /\ StepOf(active, invoked).action_data = [name |-> "orig", email |-> "edited", note |-> "edited"]
  /\ inflight[Len(inflight)].step.action_data = StepOf(active, invoked).action_data

(* The handlers running among suspended calls, and a run that starts one.  *)
HandlersIn(calls) == Cardinality({i \in DOMAIN calls : calls[i].kind = "handler"})

StartsHandler ==
  HandlersIn(inflight') >
    HandlersIn(inflight) - (IF lastAct'.op \in {"handler.return", "handler.throw"} THEN 1 ELSE 0)

(* What executeStep takes as the result of a step.                         *)
HandlerResult(step) == executeStepDispatch(Here, step, TRUE).result

(* A step of the active plan that waits for the host page's callback.      *)
HasAwaitingResult(plan) ==
  /\ IsPlan(plan)
  /\ \E j \in DOMAIN plan.steps :
       /\ plan.steps[j].status = "awaiting_result"
       /\ ~plan.steps[j].requires_result_feedback
       /\ ~plan.steps[j].auto_complete

(* C31: after the handler of a step that is executing in the active plan   *)
(* returns, exactly one outcome follows, in this priority: with            *)
(* requires_result_feedback one plans/continue request is sent and, when   *)
(* it succeeds, the store is the server's returned plan and plan:updated   *)
(* is emitted; else with auto_complete the step is completed with the      *)
(* result, plan:step:complete (success) is emitted and the walk goes on;   *)
(* else the step is awaiting_result and no step is executed until          *)
(* markStepDone or completeStepByAction is called.                         *)
C31_HandlerSuccessOutcomes ==
  [][/\ (/\ lastAct'.op = "handler.return"
         /\ IsPlan(active) /\ active.id = lastAct'.plan
         /\ StepOf(active, lastAct'.step).status = "executing")
          => LET step == StepOf(active, lastAct'.step)
                 left == PlanLeftBy(active', history')
             IN IF step.requires_result_feedback
                THEN /\ Cardinality({i \in DOMAIN inflight' : inflight'[i].kind = "plans/continue"})
                          = CountKind("plans/continue") + 1
                     /\ inflight'[Len(inflight')].step.id = step.id
                     /\ inflight'[Len(inflight')].err = HandlerResult(step)
                     /\ active' = active
                     /\ emitted' = <<>>
                     /\ ~StartsHandler
                ELSE IF step.auto_complete
                THEN /\ StepOf(left, step.id).status = "completed"
                     /\ StepOf(left, step.id).result = HandlerResult(step)
                     /\ emitted'[1] = Ev("plan:step:complete", active.id, step.id, TRUE)
                     /\ (\E j \in DOMAIN active.steps : j # FindById(active, step.id) /\ active.steps[j].status = "ready")
                          => (StartsHandler \/ CountEvents(emitted', "plan:step:confirm") = 1)
                ELSE /\ StepOf(active', step.id).status = "awaiting_result"
                     /\ StepOf(active', step.id).result = HandlerResult(step)
                     /\ CountEvents(emitted', "plan:step:complete") = 0
                     /\ ~StartsHandler
     /\ (lastAct'.op = "continuePlan.response" /\ lastAct'.ok)
          => /\ active' = server'[lastAct'.plan]
             /\ emitted' = <<Ev("plan:updated", lastAct'.plan, 0, FALSE)>>
     /\ (HasAwaitingResult(active) /\ StartsHandler)
          => lastAct'.op \in {"markStepDone", "completeStepByAction"}]_vars

(* The steps of the plan a run left behind that it turned into failed.     *)
NewlyFailed ==
  LET left == PlanLeftBy(active', history')
  IN IF ~IsPlan(active) \/ (~IsPlan(active') /\ history' = <<>>) THEN {}
     ELSE {j \in DOMAIN left.steps :
             /\ left.steps[j].status = "failed"
             /\ StepOf(active, left.steps[j].id).id # 0
             /\ StepOf(active, left.steps[j].id).status # "failed"}

(* C32: a step becomes failed only when its handler threw (the run that    *)
(* settles the failStep request of a handler exception) or the host page   *)
(* reported failure through completeStepByAction(name, false); when        *)
(* continuePlan fails in transport after the handler succeeded, no         *)
(* failStep request is sent, and the step is not turned into failed and no *)
(* plan:step:failed is emitted on its account.                             *)
C32_FailedOnlyFromHandlerOrHost ==
  [][/\ NewlyFailed # {}
          => \/ lastAct'.op = "completeStepByAction" /\ ~lastAct'.ok
             \/ /\ lastAct'.op = "failStep.response"
                /\ emitted'[1].error = "handler error"
     /\ (lastAct'.op = "continuePlan.response" /\ ~lastAct'.ok)
          => /\ Cardinality({i \in DOMAIN inflight' : inflight'[i].kind = "plans/fail-step"})
                  = CountKind("plans/fail-step")
             /\ NewlyFailed = {}
             /\ CountEvents(emitted', "plan:step:failed") = 0]_vars

(* A step no handler exists for: its action is not in the registry, onTask *)
(* has no handler for its name or its type, and its task type has no       *)
(* built-in.                                                               *)
NoHandlerFor(step) ==
  /\ step.action_name \notin RegisteredActions
  /\ step.action_name \notin TaskHandlers
  /\ step.action_type \notin TaskHandlers
  /\ step.action_type \notin {"navigate", "external_link", "copy_text"}

(* C33: when the dispatch of a step that is executing in the active plan   *)
(* finds no handler at all (registry, onTask by name, onTask by type,      *)
(* built-in), the step ends failed; it is never completed nor              *)
(* awaiting_result.                                                        *)
C33_UnhandledStepFails ==
  [][(/\ lastAct'.op = "handler.return"
      /\ IsPlan(active) /\ active.id = lastAct'.plan
      /\ StepOf(active, lastAct'.step).status = "executing"
      /\ NoHandlerFor(StepOf(active, lastAct'.step)))
       => LET st == StepOf(PlanLeftBy(active', history'), lastAct'.step)
          IN /\ st.status \notin {"completed", "awaiting_result"}
             /\ st.status = "failed" \/ CountKind("plans/fail-step") <
                  Cardinality({i \in DOMAIN inflight' : inflight'[i].kind = "plans/fail-step"})]_vars

(* C34: for any one plan, plan:complete is emitted at most once, whatever  *)
(* the interleaving of public calls and responses; in particular when two  *)
(* skipStep calls for the last open step have both their requests          *)
(* outstanding.                                                            *)
C34_PlanCompleteAtMostOnce ==
  [][\A p \in PlanIds :
       LET n == Cardinality({j \in DOMAIN emitted' :
                               emitted'[j].type = "plan:complete" /\ emitted'[j].plan = p})
       IN /\ n <= 1
          /\ n = 1 => p \notin completedPlans]_vars

(* C35: a plan:step:failed event carries canRetry=true only if the failed  *)
(* step is retriable and has retries left, that is only if retryStep for   *)
(* that step would pass its local guards; for handler exceptions and for   *)
(* failures reported through completeStepByAction(name, false) alike.      *)
C35_CanRetryMeansRetryAllowed ==
  [][\A j \in DOMAIN emitted' :
       (emitted'[j].type = "plan:step:failed" /\ emitted'[j].flag /\ IsPlan(active'))
         => LET st == StepOf(active', emitted'[j].step)
            IN /\ st.id # 0
               /\ st.is_retriable
               /\ st.retry_count < st.max_retries
               /\ RetryAllowed(active', st.id)]_vars

(* C36: when continuePlan has accepted the result of a                     *)
(* requires_result_feedback step and the server's plan is adopted, the     *)
(* same run goes on with the walk: the next ready step of the adopted plan *)
(* is executed without a further call, and a plan with nothing left to do  *)
(* is completed.                                                           *)
C36_WalkContinuesAfterFeedback ==
  [][(lastAct'.op = "continuePlan.response" /\ lastAct'.ok /\ active' = server'[lastAct'.plan])
       => LET plan == server'[lastAct'.plan]
              n == SelectStep(plan)
          IN /\ (n # 0 /\ ~plan.steps[n].requires_user_confirmation) => StartsHandler
             /\ (\A j \in DOMAIN plan.steps : IsDone(plan.steps[j]))
                  => CountEvents(emitted', "plan:complete") = 1]_vars

(* Every line of a text, the last one included when no newline ends it.    *)
AllLines(text) ==
  LET sp == SplitLines(text, <<>>, <<>>)
  IN IF sp.rest = <<>> THEN sp.lines ELSE Append(sp.lines, sp.rest)

(* C37: when the stream ends, every data line of the body has been parsed  *)
(* and dispatched exactly once, in order, a last line without a newline    *)
(* included (stated for bodies without a cancelled frame, whose break is   *)
(* the subject of C22 and C24).                                            *)
C37_EveryLineDispatchedOnce ==
  (/\ streamPhase = "returned"
   /\ \A k \in DOMAIN streamBody : streamBody[k].f # "cancelled")
    => LET all == processLines(StreamStart, AllLines(streamBody))
       IN /\ trace = all.trace
          /\ collectedText = all.collectedText
          /\ finalResult = all.finalResult

(* C38: every plan in the history list has status completed, failed or     *)
(* cancelled, however it was archived: by plan:complete, by cancel, or by  *)
(* being replaced through handlePlanReceived or recoverPlan.               *)
C38_HistoryHoldsEndedPlans ==
  \A i \in DOMAIN history : history[i].status \in {"completed", "failed", "cancelled"}

(* The stores the store functions are applied to: the active plan or none, *)
(* or a plan of the backend, with the history as it is, empty, or holding  *)
(* a plan of the backend.                                                  *)
StoreActives == {NoPlan, active} \cup {server[p] : p \in PlanIds}
StoreHistories == {<<>>, history} \cup {<<server[p]>> : p \in {q \in PlanIds : IsPlan(server[q])}}

(* The runs that call no store function but updatePlan and updatePlanStep. *)
UpdateOnlyRuns == {"startPlan", "confirmStep", "skipStep", "retryStep", "cancel",
                   "handler.throw", "continuePlan.response", "failStep.response"}

(* C39: the history only grows by appending.  setPlan appends the previous *)
(* active plan, if any, before the new one is installed; clearPlan(true)   *)
(* appends the active plan, if any; clearPlan(false), updatePlan and       *)
(* updatePlanStep leave the history as it is; no run of the executor       *)
(* removes or alters an entry (only a page load starts from an empty       *)
(* history), and the store holds one active plan or none.                  *)
C39_HistoryAppendOnly ==
  /\ [](/\ \A a \in StoreActives, h \in StoreHistories :
             /\ setPlanHistory(a, h) = (IF IsPlan(a) THEN h \o <<a>> ELSE h)
             /\ clearPlanHistory(a, h, TRUE) = (IF IsPlan(a) THEN h \o <<a>> ELSE h)
             /\ clearPlanHistory(a, h, FALSE) = h
        /\ active = NoPlan \/ IsPlan(active))
  /\ [][/\ lastAct'.op # "reload"
            => /\ Len(history') >= Len(history)
               /\ SubSeq(history', 1, Len(history)) = history
               /\ \A j \in (Len(history) + 1)..Len(history') : IsPlan(history'[j])
        /\ lastAct'.op \in UpdateOnlyRuns => history' = history
        /\ (lastAct'.op = "handlePlanReceived" /\ IsPlan(active))
            => history'[Len(history) + 1] = active]_vars

C39_Witness ==
  /\ lastAct.op = "skipStep.response"
  /\ IsPlan(active)
  /\ Len(history) = 1
  /\ history[1].id = active.id
  /\ setPlanHistory(active, history) = <<history[1], active>>

(* A line as the loop sees it, without its newline.                        *)
Line(frame) == SubSeq(LineOf(frame), 1, 2)

IsGarbage(line) == line # <<>> /\ line[1].f = "garbage"

NotGarbage(line) == ~IsGarbage(line)

(* C40: a data line whose payload is not valid JSON is skipped: no         *)
(* callback is invoked for it and nothing else changes, the lines before   *)
(* and after it are dispatched as if it were not there, and callToolStream *)
(* rejects only when the read itself fails or is aborted.                  *)
C40_MalformedLineSkipped ==
  /\ processLine(StreamHere, Line("garbage")) = StreamHere
  /\ processLines(StreamHere, <<Line("garbage"), Line("token:a")>>)
       = processLines(StreamHere, <<Line("token:a")>>)
  /\ streamPhase = "rejected" => settled.error \in {"AbortError", "r"}
  /\ (/\ streamPhase = "returned"
      /\ streamBody[Len(streamBody)] = NL
      /\ \A k \in DOMAIN streamBody : streamBody[k].f # "cancelled")
       => /\ settled.kind = "resolved"
          /\ trace = processLines(StreamStart, SelectSeq(AllLines(streamBody), NotGarbage)).trace

C40_Witness ==
  /\ streamPhase = "returned"
  /\ streamBody = BodyOf(<<"token:a", "garbage", "token:b">>)
  /\ Len(chunksLeft) = 0
  /\ trace = <<Called("onToken", <<"a">>), Called("onToken", <<"b">>)>>
  /\ settled.text = <<"a", "b">>

====
